---- MODULE Spec2Model ----
(***************************************************************************)
(* Model of the BoMI-StartReact acquisition pipeline:                      *)
(*   - TrignoClient (bomi/device_managers/trigno/client.py): the two       *)
(*     socket client, its background stream worker and the Packet queue;   *)
(*   - ScopeWidget (bomi/widgets/scope_widget.py): the consumer that       *)
(*     starts/stops the stream and drains the queue on every timer tick;   *)
(*   - YostBuffer / DelsysBuffer (bomi/datastructure.py): the fixed        *)
(*     capacity shift buffers;                                             *)
(*   - recv_sz (client.py): the exact-size read from the data socket.      *)
(*                                                                         *)
(* Times are integers in a unit in which frame_interval / max_samples_emg  *)
(* is exact; floats of a frame are small signed integers.                  *)
(***************************************************************************)
EXTENDS Integers, Sequences, FiniteSets, TLC

(***************************************************************************)
(* Bounds of the model                                                     *)
(***************************************************************************)
MaxStarts == 2       \* start_stream calls in one run
MaxFrames == 2       \* frames read from the data socket in one run of one stream at a time
LifeFrames == 1      \* frames read from the data socket in one run of the whole program

MaxCap == 2          \* largest bufsize a buffer is constructed with
MaxInserts == 3      \* add_packet calls on one buffer
MaxRecvFrames == 2   \* recv_sz calls on the data socket, followed chunk by chunk
MaxZeroRecvs == 2    \* sock.recv calls followed after the peer has closed the connection

MaxOpens == 1        \* open_connection calls followed command by command
MaxPaired == 2       \* slots that answer YES to PAIRED? in one discovery
MaxChannels == 2     \* largest reply to CHANNELCOUNT?
MaxBatch == 2        \* longest command list given to send_cmds
MaxWindow == 3       \* largest window size K of a MovingAverageBuffer
MaxRawAdds == 6      \* raw samples added to one MovingAverageBuffer
MaxTicks == 4        \* update() calls of a ScopeWidget with a task_widget
MaxTrials == 2       \* largest value of the No. Trials spin box
MaxPresses == 3      \* presses of the Begin task / End task button
MaxTargets == 2      \* largest n_targets of the reaching task
MaxReps == 2         \* largest n_reps of the reaching task
MaxRuns == 2         \* runs of the reaching task begun with the Start button

\* Every start_stream spawns one thread, so no more threads exist at once.
MaxThreads == MaxStarts

(***************************************************************************)
(* Program constants                                                       *)
(***************************************************************************)
NSlots == 16         \* sensor slots 1..16 and floats per frame
None == 0            \* an empty slot of the sensor table / no thread
Unset == -1          \* last_frame_time = None
QueueMaxsize == 0    \* Queue(): maxsize 0, the queue has no capacity bound
ConnectTimeout == 1  \* self.command_sock.settimeout(1)
ReplyTimeout == 5    \* self.command_sock.settimeout(5)

Slots == 1..NSlots

\* Slots the modelled base station may report as paired and active, and the
\* reply to STARTINDEX? for each.
ServerSlots == {3, 7}
ServerStartIdx == (3 :> 5) @@ (7 :> 7)
\* Replies to FRAME INTERVAL? and MAX SAMPLES EMG? (exact quotients).
ServerFrameIntervals == {4}
ServerMaxSamples == {1, 2}
\* Contents of the frames the base station may send.
FramePatterns == {1, 2}

VARIABLES
    \* ---- TrignoClient fields
    connected,            \* self.connected
    emg_data_sock,        \* "unconnected" | "connected"
    sensors,              \* self.sensors: slot -> start_idx of the EMGSensor, or None;
                          \* <<>> is the empty list close() leaves
    sensor_idx,           \* self.sensor_idx
    n_sensors,            \* self.n_sensors
    start_time,           \* self.start_time
    last_frame_time,      \* self.last_frame_time (Unset = None)
    _done_streaming,      \* self._done_streaming (threading.Event)
    _worker_thread,       \* self._worker_thread: thread id or None
    frame_interval,       \* self.frame_interval (Unset before open_connection)
    max_samples_emg,      \* self.max_samples_emg
    emg_sample_interval,  \* self.emg_sample_interval
    \* ---- threads running TrignoClient.stream_worker
    threads,              \* thread id -> [pc, connected_sensors, emg, i, tmp, k, st, solo, sent]
    \* ---- ScopeWidget fields
    queue,                \* self.queue (queue.Queue of Packets)
    timer,                \* self.timer is active
    buffers,              \* keys of self.buffers
    \* ---- the Qt main thread
    mpc,                  \* "idle" | "join" | "send" | "drain"
    mop,                  \* the handler a running stop_stream belongs to
    qsize,                \* update(): entries still to pop in this tick
    err,                  \* last error raised / returned on the main thread
    \* ---- the Trigno base station (environment)
    server,               \* [streaming, avail, sensors, fi, ms]
    lastCmd,              \* last command sent on the command socket
    \* ---- history
    clock,                \* default_timer(), advanced by start_stream
    nframes,              \* frames read so far
    frameCap,             \* frames this run may read (MaxFrames or LifeFrames)
    npushed,              \* number of queue.put calls so far; the n-th Packet put has seq = n
    ngot,                 \* number of q.get calls of update() that have returned
    lastGot,              \* seq of the Packet the last q.get of update() returned (0: none yet)
    tickSize,             \* what qsize() returned to the running update()
    tickBase,             \* npushed when the running update() called qsize()
    \* ---- bomi/datastructure.py: one YostBuffer, one DelsysBuffer
    ybuf,                 \* YostBuffer: [bufsize, timestamp, data, last_angle, rows], or None
    dbuf,                 \* DelsysBuffer: [bufsize, timestamp, data], or None
    yhist,                \* the Packets given to YostBuffer.add_packet, in call order
    dhist,                \* [t, packet] of every DelsysBuffer.add_packet, in call order
    now,                  \* default_timer() as DelsysBuffer reads it
    \* ---- recv_sz on the data socket, chunk by chunk
    rpc,                  \* "idle" | "loop": inside recv_sz or not
    rbuf,                 \* buf of the running recv_sz
    rpos,                 \* bytes of the stream the socket has delivered so far
    rask,                 \* len(buf) + the size the last sock.recv was asked for
    rframes,              \* the values recv_sz has returned, in call order
    rclosed,              \* the peer has closed the data connection
    rzero,                \* sock.recv calls that returned b"" so far
    \* ---- the command socket, one send / one recv at a time
    cpc,                  \* [op, phase, n, i, si, cc, cmds]: position of the main thread
                          \* inside open_connection / query_device / send_cmd / send_cmds
    unread,               \* replies the base station has written that no recv has read
    sentlog,              \* commands sent by the running operation (for query_device:
                          \* on behalf of the current slot), in send order
    visited,              \* slots query_devices has called query_device for, in call order
    replies,              \* slot -> what it answered to PAIRED? / ACTIVE? in this discovery
    nopens,               \* open_connection calls so far
    lastReply,            \* what the last recv on the command socket returned
    \* ---- socket timeouts
    timeouts,             \* [command, emg]: timeout of each socket object (None: blocking)
    waits,                \* <<operation, timeout>> of the blocking socket operations of
                          \* the connect phase and of the frame reads performed so far
    \* ---- one MovingAverageBuffer (AveragedMultichannelBuffer)
    mabuf,                \* [K, acc]: window size (None: no buffer) and the raw samples
                          \* accumulated
    mraw,                 \* the raw samples given to add, in call order
    mfwd,                 \* [at, sample] of every averaged sample forwarded to the
                          \* underlying RingBuffer: at counts the raw adds so far
    \* ---- ScopeWidget.buffers, what update() has added
    lastAdded,            \* <<device_name, time>> of the Packet added last to each buffer
    \* ---- ScopeWidget with a task_widget: the task state of update()
    last_state,           \* TaskState: "OUTSIDE", "IN_TARGET" or "IN_BASE"
    target_range,         \* <<tmin, tmax>>
    base_range,           \* <<bmin, bmax>>
    nticks,               \* update() calls that reached the task part
    lastEvent,            \* the TaskEvent emitted last: [tick, ev, inT, inB]
    \* ---- SRDisplay
    curr_state,           \* "IDLE", "GO", "WAIT" or "TASK_DONE"
    n_trials_left,
    n_trials,             \* the value of the No. Trials spin box
    btn,                  \* the text of start_stop_btn: "Begin task" or "End task"
    timer_one,            \* timer_one.isActive()
    timer_end_one,        \* timer_end_one.isActive()
    shots,                \* QTimer.singleShot(..., self.one_trial) timers not yet expired
    ngo,                  \* go signals one_trial has issued since the last begin_block
    nended,               \* [n, at]: end_one_trial calls so far, curr_state at the last one
    npress,               \* presses of start_stop_btn
    \* ---- ReachingWidget
    targets,              \* Targets: [all, idx]; a target is its number 1..n_targets
    running,
    cursor_pos,           \* the target circle the cursor is in, 0 outside of all
    last_cursor_inside,
    acquired,             \* target_acquired_time is a time, not math.inf
    task_history,         \* the targets of the entries appended, in order
    rrun                  \* [n, base, done]: runs begun, len(task_history) when the
                          \* last one began, runs finished

clientVars == <<connected, emg_data_sock, sensors, sensor_idx, n_sensors, start_time,
                last_frame_time, _done_streaming, _worker_thread, frame_interval,
                max_samples_emg, emg_sample_interval>>
widgetVars == <<queue, timer, buffers>>
mainVars == <<mpc, mop, qsize, err>>
histVars == <<clock, nframes, frameCap, npushed, ngot, lastGot, tickSize, tickBase>>
bufVars == <<ybuf, dbuf, yhist, dhist, now>>
recvVars == <<rpc, rbuf, rpos, rask, rframes, rclosed, rzero>>
cmdVars == <<cpc, unread, sentlog, visited, replies, nopens, lastReply>>
sockVars == <<timeouts, waits>>
avgVars == <<mabuf, mraw, mfwd>>
taskVars == <<last_state, target_range, base_range, nticks, lastEvent>>
srVars == <<curr_state, n_trials_left, n_trials, btn, timer_one, timer_end_one, shots, ngo,
           nended, npress>>
reachVars == <<targets, running, cursor_pos, last_cursor_inside, acquired, task_history,
              rrun>>
moreVars == <<taskVars, srVars, reachVars>>
extVars == <<lastAdded, moreVars>>
vars == <<clientVars, threads, widgetVars, mainVars, server, lastCmd, histVars,
          bufVars, recvVars, cmdVars, sockVars, avgVars, extVars>>

(***************************************************************************)
(* Helpers                                                                 *)
(***************************************************************************)
Abs(x) == IF x < 0 THEN -x ELSE x

\* str(n) for the slot numbers 1..16
StrTab == <<"1", "2", "3", "4", "5", "6", "7", "8",
            "9", "10", "11", "12", "13", "14", "15", "16">>
Str(n) == StrTab[n]

\* The 16 floats of the frame with content pattern p, as struct.unpack returns them.
FrameOf(p) == [j \in Slots |-> ((p * j) % 5) - 2]

\* [s for s in self.sensors if s is not None], in list order
RECURSIVE NotNoneFrom(_, _)
NotNoneFrom(tab, i) ==
    IF i \notin DOMAIN tab THEN <<>>
    ELSE IF tab[i] # None
         THEN <<[slot |-> i, start_idx |-> tab[i]]>> \o NotNoneFrom(tab, i + 1)
         ELSE NotNoneFrom(tab, i + 1)
NotNone(tab) == NotNoneFrom(tab, 0)

\* [i for i, s in enumerate(self.sensors) if s]
SensorIdxOf(tab) == [n \in 1..Len(NotNone(tab)) |-> NotNone(tab)[n].slot]

\* get_all_sensor_names()
SensorNames(tab) == {Str(NotNone(tab)[n].start_idx) : n \in 1..Len(NotNone(tab))}

EmptyTable == [i \in 0..NSlots |-> None]

\* k counts the frames the thread has handled, st is the start_time of its
\* stream, sent[s] the Packets it has put for slot s.
NoThread == [pc |-> "none", connected_sensors |-> <<>>, emg |-> 0, i |-> 0,
             tmp |-> 0, k |-> 0, st |-> 0, solo |-> TRUE, sent |-> [s \in Slots |-> 0]]

Alive(w) == threads[w].pc \notin {"none", "exited"}
AliveThreads == {w \in 1..MaxThreads : Alive(w)}

(***************************************************************************)
(* Initial state: TrignoClient.__init__ / _init_state and                  *)
(* ScopeWidget.__init__, facing a base station with some configuration.    *)
(***************************************************************************)
\* The client takes int(cmd("SENSOR {i} STARTINDEX?")) as it comes: besides
\* the tables with one index per slot, the station may report the index of
\* its lowest slot for every paired slot.
LowSlot == CHOOSE s \in ServerSlots : \A u \in ServerSlots : s <= u
ServerTables ==
    {[i \in 0..NSlots |-> IF i \in S THEN ServerStartIdx[i] ELSE None] : S \in SUBSET ServerSlots}
    \cup {[i \in 0..NSlots |-> IF i \in ServerSlots THEN ServerStartIdx[LowSlot] ELSE None]}

InitClient(cap) ==
    /\ connected = FALSE
    /\ emg_data_sock = "unconnected"
    /\ sensors = EmptyTable
    /\ sensor_idx = <<>>
    /\ n_sensors = 0
    /\ start_time = 0
    /\ last_frame_time = Unset
    /\ _done_streaming = FALSE
    /\ _worker_thread = None
    /\ frame_interval = Unset
    /\ max_samples_emg = Unset
    /\ emg_sample_interval = Unset
    /\ threads = [w \in 1..MaxThreads |-> NoThread]
    /\ queue = <<>>
    /\ timer = FALSE
    /\ buffers = {}
    /\ mpc = "idle"
    /\ mop = "none"
    /\ qsize = 0
    /\ err = ""
    /\ lastCmd = ""
    /\ clock = 0
    /\ nframes = 0
    /\ frameCap = cap
    /\ npushed = 0
    /\ ngot = 0
    /\ lastGot = 0
    /\ tickSize = 0
    /\ tickBase = 0

InitServer ==
    \E tab \in ServerTables, fi \in ServerFrameIntervals, ms \in ServerMaxSamples :
        server = [streaming |-> FALSE, avail |-> FALSE, sensors |-> tab, fi |-> fi, ms |-> ms]

\* No YostBuffer or DelsysBuffer has been constructed.
NoBuffers ==
    /\ ybuf = None
    /\ dbuf = None
    /\ yhist = <<>>
    /\ dhist = <<>>
    /\ now = 0

\* No recv_sz call is followed chunk by chunk.
RecvIdle ==
    /\ rpc = "idle"
    /\ rbuf = <<>>
    /\ rpos = 0
    /\ rask = 0
    /\ rframes = <<>>
    /\ rclosed = FALSE
    /\ rzero = 0

\* No operation on the command socket is followed command by command.
NoCommand == [op |-> "none", phase |-> "idle", n |-> 0, i |-> 0, si |-> 0, cc |-> 0,
              cmds |-> <<>>]
NoReplies == [i \in Slots |-> "none"]
CommandIdle ==
    /\ cpc = NoCommand
    /\ unread = 0
    /\ sentlog = <<>>
    /\ visited = <<>>
    /\ replies = NoReplies
    /\ nopens = 0
    /\ lastReply = ""

\* socket.socket(...): a new socket object is blocking, it has no timeout
NewSockets == [command |-> None, emg |-> None]

\* _init_state: two new sockets; no blocking operation performed yet.
\* ScopeConfig: target_range = (-50, 50), base_range = (-6, -3)
DefaultTargetRange == <<0 - 50, 50>>
DefaultBaseRange == <<0 - 6, 0 - 3>>

NoEvent == [tick |-> 0, ev |-> "none", inT |-> FALSE, inB |-> FALSE]

\* ScopeWidget.__init__: last_state = TaskState.OUTSIDE, the ranges of the config
ScopeTaskInit ==
    /\ last_state = "OUTSIDE"
    /\ target_range = DefaultTargetRange
    /\ base_range = DefaultBaseRange
    /\ nticks = 0
    /\ lastEvent = NoEvent

\* SRDisplay.__init__ with the spin box at N
SRDisplayInit(N) ==
    /\ curr_state = "IDLE"
    /\ n_trials_left = 0
    /\ n_trials = N
    /\ btn = "Begin task"
    /\ timer_one = FALSE
    /\ timer_end_one = FALSE
    /\ shots = 0
    /\ ngo = 0
    /\ nended = [n |-> 0, at |-> "none"]
    /\ npress = 0

\* the sequences Targets.generate_targets(n, reps) can return: reps shuffles
\* of the n targets, one after the other
TargetSequences(n, reps) ==
    {q \in [1..(n * reps) -> 1..n] :
        \A r \in 0..(reps - 1) : {q[r * n + i] : i \in 1..n} = 1..n}

\* ReachingWidget.__init__ with targets = Targets.init(n, reps)
ReachingInit(n, reps) ==
    /\ \E q \in TargetSequences(n, reps) : targets = [all |-> q, idx |-> 0]
    /\ running = FALSE
    /\ cursor_pos = 0
    /\ last_cursor_inside = FALSE
    /\ acquired = FALSE
    /\ task_history = <<>>
    /\ rrun = [n |-> 0, base |-> 0, done |-> 0]

\* a ScopeWidget without a task in use, no reaching task
NoTask == ScopeTaskInit /\ SRDisplayInit(1) /\ ReachingInit(1, 1)

\* no MovingAverageBuffer has been constructed; no buffer of the widget holds
\* a Packet
NoAverage ==
    /\ mabuf = [K |-> None, acc |-> <<>>]
    /\ mraw = <<>>
    /\ mfwd = <<>>
    /\ lastAdded = {}
    /\ NoTask

SocketsFresh ==
    /\ timeouts = NewSockets
    /\ waits = {}

\* open_connection on a client that is not connected: new sockets,
\* settimeout(1) and connect on the command socket, settimeout(5) and the
\* banner read, then the connect of the data socket, which is given no timeout
ConnectWaits ==
    {<<"command connect", ConnectTimeout>>, <<"banner read", ReplyTimeout>>,
     <<"data connect", NewSockets.emg>>}

Init == InitClient(LifeFrames) /\ InitServer /\ NoBuffers /\ RecvIdle /\ CommandIdle
        /\ SocketsFresh /\ NoAverage

(***************************************************************************)
(* TrignoClient.open_connection                                            *)
(***************************************************************************)
\* query_devices(): slot i gets a descriptor iff the base station reports it
\* paired and active; slot 0 is never assigned.
QueryDevices(tab) == [i \in 0..NSlots |-> IF i = 0 THEN sensors[0] ELSE tab[i]]

OpenConnection ==
    /\ mpc = "idle"
    /\ \E outcome \in {"ok", "timeout", "refused"} :
        IF ~connected /\ outcome # "ok"
        THEN \* except TimeoutError: return err_str; a ConnectionRefusedError
             \* is not caught and reaches the caller
             /\ err' = IF outcome = "timeout" THEN "Failed to connect to Base Station"
                                              ELSE "ConnectionRefusedError"
             /\ emg_data_sock' = "unconnected"
             \* the connect of the command socket is what fails
             /\ timeouts' = [NewSockets EXCEPT !.command = ConnectTimeout]
             /\ waits' = waits \cup {<<"command connect", ConnectTimeout>>}
             /\ UNCHANGED <<connected, sensors, sensor_idx, n_sensors, frame_interval,
                            max_samples_emg, emg_sample_interval, lastCmd>>
        ELSE /\ connected' = TRUE
             /\ emg_data_sock' = "connected"
             /\ timeouts' = IF connected THEN timeouts
                                         ELSE [NewSockets EXCEPT !.command = ReplyTimeout]
             \* every send_cmd reads its reply from the command socket
             /\ waits' = waits \cup (IF connected THEN {} ELSE ConnectWaits)
                                \cup {<<"reply read", timeouts'.command>>}
             /\ frame_interval' = server.fi
             /\ max_samples_emg' = server.ms
             \* emg_sample_rate = max_samples_emg / frame_interval;
             \* emg_sample_interval = 1 / emg_sample_rate
             /\ emg_sample_interval' = server.fi \div server.ms
             /\ IF DOMAIN sensors = {}
                THEN \* self.sensors[1] = self.query_device(1) on the empty list
                     \* that close() left: IndexError
                     /\ lastCmd' = IF server.sensors[1] = None
                                   THEN "SENSOR 1 PAIRED?" ELSE "SENSOR 1 CHANNEL 1 UNITS?"
                     /\ err' = "IndexError"
                     /\ UNCHANGED <<sensors, sensor_idx, n_sensors>>
                ELSE /\ sensors' = QueryDevices(server.sensors)
                     /\ sensor_idx' = SensorIdxOf(sensors')
                     /\ n_sensors' = Len(NotNone(sensors'))
                     /\ lastCmd' = IF server.sensors[NSlots] = None
                                   THEN "SENSOR 16 PAIRED?" ELSE "SENSOR 16 CHANNEL 1 UNITS?"
                     /\ err' = ""
    /\ UNCHANGED <<start_time, last_frame_time, _done_streaming, _worker_thread, threads,
                   widgetVars, mpc, mop, qsize, server, histVars>>
    /\ UNCHANGED <<bufVars, recvVars, cmdVars, avgVars, extVars>>

(***************************************************************************)
(* ScopeWidget.start_stream: init_data(), dm.start_stream(queue),          *)
(* timer.start().  The widget is built without a separate trigno_client.   *)
(***************************************************************************)
FreeIds == {w \in 1..MaxThreads : threads[w].pc \in {"none", "exited"}}

\* threading.Thread(target=self.stream_worker, ...).start()
Spawn(w, st) ==
    [v \in 1..MaxThreads |->
        IF v = w THEN [NoThread EXCEPT !.pc = "init", !.st = st,
                                       !.solo = (AliveThreads = {})]
        ELSE IF threads[v].pc = "exited" THEN NoThread
        ELSE IF Alive(v) THEN [threads[v] EXCEPT !.solo = FALSE]
        ELSE threads[v]]

CanStart == clock < MaxStarts /\ FreeIds # {}

\* a start_stream whose assert is compiled away (python -O)
AssertStripped == TRUE

\* TrignoClient.start_stream: assert self.connected
AssertConnected == connected

StartStreamOp ==
    \* init_data(): empty the queue, create the missing buffers
    /\ queue' = <<>>
    /\ buffers' = buffers \cup SensorNames(sensors)
    /\ IF ~AssertConnected
       THEN \* TrignoClient.start_stream: assert self.connected
            /\ err' = "AssertionError"
            /\ UNCHANGED <<lastCmd, server, clock, start_time, last_frame_time,
                           _done_streaming, _worker_thread, threads, timer>>
       ELSE /\ lastCmd' = "START"
            /\ server' = [server EXCEPT !.streaming = TRUE]
            /\ clock' = clock + 1
            /\ start_time' = clock'
            /\ last_frame_time' = start_time'
            /\ _done_streaming' = FALSE
            /\ LET w == CHOOSE v \in FreeIds : \A u \in FreeIds : v <= u
               IN /\ threads' = Spawn(w, start_time')
                  /\ _worker_thread' = w
            /\ timer' = TRUE
            /\ err' = ""
    /\ UNCHANGED <<connected, emg_data_sock, sensors, sensor_idx, n_sensors, frame_interval,
                   max_samples_emg, emg_sample_interval, mop, qsize,
                   nframes, frameCap, npushed, ngot, lastGot, tickSize, tickBase>>
    /\ UNCHANGED <<bufVars, recvVars, cmdVars, sockVars, avgVars, extVars>>

\* showEvent: init_data(), init_ui(); init_ui() ends with self.start_stream()
ShowEvent ==
    /\ mpc = "idle"
    /\ CanStart
    /\ StartStreamOp
    /\ UNCHANGED mpc

(***************************************************************************)
(* TrignoClient.stop_stream and the handlers that run it.  The main thread *)
(* blocks in join(), so the handler is split at that point.                *)
(***************************************************************************)
\* self._done_streaming.set()
StopBegin(op) ==
    /\ mpc = "idle"
    /\ _done_streaming' = TRUE
    /\ mpc' = "join"
    /\ mop' = op
    /\ err' = ""
    /\ UNCHANGED <<connected, emg_data_sock, sensors, sensor_idx, n_sensors, start_time,
                   last_frame_time, _worker_thread, frame_interval, max_samples_emg,
                   emg_sample_interval, threads, queue, timer, buffers, qsize,
                   server, lastCmd, histVars>>
    /\ UNCHANGED <<bufVars, recvVars, cmdVars, sockVars, avgVars, extVars>>

\* ScopeWidget.stop_stream (toggle_stream off, closeEvent)
StopStream == StopBegin("stop")

\* tare(): self.stop_stream(); self.start_stream()
Tare ==
    /\ CanStart
    /\ StopBegin("tare")

\* TrignoClient.close_connection
CloseConnection == StopBegin("close_connection")

\* TrignoClient.close (also run by __del__)
Close == StopBegin("close")

\* self._worker_thread and self._worker_thread.join()
Joined == IF _worker_thread = None THEN TRUE ELSE threads[_worker_thread].pc = "exited"

StopJoin ==
    /\ mpc = "join"
    /\ Joined
    /\ mpc' = "send"
    /\ UNCHANGED <<clientVars, threads, widgetVars, mop, qsize, err, server, lastCmd,
                   histVars>>
    /\ UNCHANGED <<bufVars, recvVars, cmdVars, sockVars, avgVars, extVars>>

\* if self.connected: self.send_cmd("STOP"), then the rest of the handler
\* (lastCmd is the last command the handler has sent)
StopSend ==
    /\ mpc = "send"
    /\ IF connected
       THEN \* close() goes on with  if self.connected: self.send_cmd("QUIT")
            /\ lastCmd' = IF mop = "close" THEN "QUIT" ELSE "STOP"
            /\ server' = [server EXCEPT !.streaming = FALSE]
       ELSE UNCHANGED <<lastCmd, server>>
    /\ \/ /\ mop = "stop"                \* ScopeWidget.stop_stream: timer.stop()
          /\ timer' = FALSE
          /\ mpc' = "idle"
          /\ mop' = "none"
          /\ UNCHANGED <<clientVars, threads>>
       \/ /\ mop = "tare"                \* timer.stop(); then start_stream()
          /\ timer' = FALSE
          /\ mpc' = "start"
          /\ mop' = "none"
          /\ UNCHANGED <<clientVars, threads>>
       \/ /\ mop = "close_connection"    \* close both sockets, _init_state()
          /\ emg_data_sock' = "unconnected"
          /\ sensors' = EmptyTable
          /\ sensor_idx' = <<>>
          /\ n_sensors' = 0
          /\ start_time' = 0
          /\ last_frame_time' = Unset
          /\ _done_streaming' = FALSE
          /\ _worker_thread' = None
          /\ threads' = [v \in 1..MaxThreads |->
                            IF threads[v].pc = "exited" THEN NoThread ELSE threads[v]]
          /\ connected' = FALSE
          /\ mpc' = "idle"
          /\ mop' = "none"
          /\ UNCHANGED <<frame_interval, max_samples_emg, emg_sample_interval, timer>>
       \/ /\ mop = "close"               \* QUIT, close both sockets, empty both lists
          /\ connected' = FALSE
          /\ emg_data_sock' = "unconnected"
          /\ sensor_idx' = <<>>
          /\ sensors' = <<>>
          /\ mpc' = "idle"
          /\ mop' = "none"
          /\ UNCHANGED <<n_sensors, start_time, last_frame_time, _done_streaming,
                         _worker_thread, frame_interval, max_samples_emg,
                         emg_sample_interval, threads, timer>>
    \* _init_state() of close_connection makes two new socket objects
    /\ timeouts' = IF mop = "close_connection" THEN NewSockets ELSE timeouts
    /\ UNCHANGED <<queue, buffers, qsize, err, histVars>>
    /\ UNCHANGED <<bufVars, recvVars, cmdVars, waits, avgVars, extVars>>

\* tare(): the self.start_stream() after self.stop_stream()
TareStart ==
    /\ mpc = "start"
    /\ mpc' = "idle"
    /\ StartStreamOp

(***************************************************************************)
(* TrignoClient.stream_worker, one thread w                                *)
(***************************************************************************)
\* A thread that returns or dies; join() on the tracked thread then returns.
Exit(w) == IF _worker_thread = w THEN [NoThread EXCEPT !.pc = "exited"] ELSE NoThread

\* connected_sensors = [sensor for sensor in self.sensors if sensor is not None]
WInit(w) ==
    /\ threads[w].pc = "init"
    /\ threads' = [threads EXCEPT ![w].connected_sensors = NotNone(sensors),
                                  ![w].pc = "loop"]
    /\ UNCHANGED <<clientVars, widgetVars, mainVars, server, lastCmd, histVars>>
    /\ UNCHANGED <<bufVars, recvVars, cmdVars, sockVars, avgVars, extVars>>

\* while not self._done_streaming.is_set():
WLoop(w) ==
    /\ threads[w].pc = "loop"
    /\ threads' = [threads EXCEPT ![w] = IF _done_streaming THEN Exit(w)
                                         ELSE [@ EXCEPT !.pc = "recv"]]
    /\ UNCHANGED <<clientVars, widgetVars, mainVars, server, lastCmd, histVars>>
    /\ UNCHANGED <<bufVars, recvVars, cmdVars, sockVars, avgVars, extVars>>

\* recv_emg: buf = recv_sz(self.emg_data_sock, 4 * 16), then the load of
\* self.last_frame_time for the += ; None + float raises TypeError.
WRecv(w) ==
    /\ threads[w].pc = "recv"
    /\ emg_data_sock = "connected"
    /\ server.avail
    /\ nframes < frameCap
    /\ \E p \in FramePatterns :
        threads' = [threads EXCEPT ![w] =
                        IF last_frame_time = Unset THEN Exit(w)
                        ELSE [@ EXCEPT !.pc = "add", !.emg = p, !.tmp = last_frame_time]]
    /\ \E more \in BOOLEAN : server' = [server EXCEPT !.avail = more]
    /\ nframes' = nframes + 1
    /\ waits' = waits \cup {<<"frame read", timeouts.emg>>}
    /\ UNCHANGED <<clientVars, widgetVars, mainVars, lastCmd, clock, frameCap, npushed,
                   ngot, lastGot, tickSize, tickBase>>
    /\ UNCHANGED <<bufVars, recvVars, cmdVars, timeouts, avgVars, extVars>>

\* recv on the socket object that replaced the closed one: OSError ends the thread
WRecvFail(w) ==
    /\ threads[w].pc = "recv"
    /\ emg_data_sock = "unconnected"
    /\ threads' = [threads EXCEPT ![w] = Exit(w)]
    /\ UNCHANGED <<clientVars, widgetVars, mainVars, server, lastCmd, histVars>>
    /\ UNCHANGED <<bufVars, recvVars, cmdVars, sockVars, avgVars, extVars>>

\* recv_emg advancing the frame clock by self.frame_interval
WAddFrameInterval(w) ==
    /\ threads[w].pc = "add"
    /\ last_frame_time' = threads[w].tmp + frame_interval
    /\ threads' = [threads EXCEPT ![w] =
                      IF threads[w].connected_sensors = <<>>
                      THEN [@ EXCEPT !.pc = "loop", !.tmp = 0, !.emg = 0, !.k = @ + 1]
                      ELSE [@ EXCEPT !.pc = "push", !.tmp = 0, !.i = 1]]
    /\ UNCHANGED <<connected, emg_data_sock, sensors, sensor_idx, n_sensors, start_time,
                   _done_streaming, _worker_thread, frame_interval, max_samples_emg,
                   emg_sample_interval, widgetVars, mainVars, server, lastCmd, histVars>>
    /\ UNCHANGED <<bufVars, recvVars, cmdVars, sockVars, avgVars, extVars>>

\* recv on the open data socket raises OSError (the connection is reset):
\* stream_worker catches struct.error only, the thread ends
WRecvError(w) ==
    /\ threads[w].pc = "recv"
    /\ emg_data_sock = "connected"
    /\ threads' = [threads EXCEPT ![w] = Exit(w)]
    /\ UNCHANGED <<clientVars, widgetVars, mainVars, server, lastCmd, histVars>>
    /\ UNCHANGED <<bufVars, recvVars, cmdVars, sockVars, avgVars, extVars>>

\* recv_emg: the store of self.last_frame_time += self.emg_sample_interval,
\* return struct.unpack(...)
WAdd(w) ==
    /\ threads[w].pc = "add"
    /\ last_frame_time' = threads[w].tmp + emg_sample_interval
    /\ threads' = [threads EXCEPT ![w] =
                      IF threads[w].connected_sensors = <<>>
                      THEN [@ EXCEPT !.pc = "loop", !.tmp = 0, !.emg = 0, !.k = @ + 1]
                      ELSE [@ EXCEPT !.pc = "push", !.tmp = 0, !.i = 1]]
    /\ UNCHANGED <<connected, emg_data_sock, sensors, sensor_idx, n_sensors, start_time,
                   _done_streaming, _worker_thread, frame_interval, max_samples_emg,
                   emg_sample_interval, widgetVars, mainVars, server, lastCmd, histVars>>
    /\ UNCHANGED <<bufVars, recvVars, cmdVars, sockVars, avgVars, extVars>>

\* a Packet whose reading is emg[sensor.start_idx - 1], the sign kept
MakePacketSigned(w, sensor) ==
    [time |-> last_frame_time,
     device_name |-> Str(sensor.start_idx),
     reading |-> FrameOf(threads[w].emg)[sensor.start_idx],
     slot |-> sensor.slot, emg |-> threads[w].emg,
     k |-> threads[w].k, st |-> threads[w].st, solo |-> threads[w].solo, w |-> w,
     seq |-> npushed + 1]

\* reading = abs(emg[sensor.start_idx - 1]); Packet(time=self.last_frame_time,
\* device_name=str(sensor.start_idx), ...).  slot, emg, k, st, solo and w record
\* where the Packet comes from, seq its place among all Packets put.
MakePacket(w, sensor) ==
    [time |-> last_frame_time,
     device_name |-> Str(sensor.start_idx),
     reading |-> Abs(FrameOf(threads[w].emg)[sensor.start_idx]),
     slot |-> sensor.slot, emg |-> threads[w].emg,
     k |-> threads[w].k, st |-> threads[w].st, solo |-> threads[w].solo, w |-> w,
     seq |-> npushed + 1]

\* a queue that is full with two entries (Queue(maxsize=2))
QFullAtTwo(q) == Len(q) >= 2

\* Queue.put blocks while  maxsize > 0 and qsize() >= maxsize
QFull(q) == QueueMaxsize > 0 /\ Len(q) >= QueueMaxsize

\* queue.put(packet)
QPut(q, packet) == Append(q, packet)

\* for sensor in connected_sensors: ... queue.put(packet)
WPush(w) ==
    /\ threads[w].pc = "push"
    /\ ~QFull(queue)
    /\ LET t == threads[w]
           packet == MakePacket(w, t.connected_sensors[t.i])
       IN /\ queue' = QPut(queue, packet)
          /\ npushed' = npushed + 1
          /\ threads' = [threads EXCEPT ![w] =
                            IF t.i = Len(t.connected_sensors)
                            THEN [@ EXCEPT !.pc = "loop", !.i = 0, !.emg = 0, !.k = @ + 1,
                                           !.sent[packet.slot] = @ + 1]
                            ELSE [@ EXCEPT !.i = @ + 1, !.sent[packet.slot] = @ + 1]]
    /\ UNCHANGED <<clientVars, timer, buffers, mainVars, server, lastCmd,
                   clock, nframes, frameCap, ngot, lastGot, tickSize, tickBase>>
    /\ UNCHANGED <<bufVars, recvVars, cmdVars, sockVars, avgVars, extVars>>

Worker(w) ==
    \/ WInit(w) \/ WLoop(w) \/ WRecv(w) \/ WRecvFail(w) \/ WRecvError(w)
    \/ WAdd(w) \/ WPush(w)

\* The worker while the data socket stays open
WorkerOpen(w) == WInit(w) \/ WLoop(w) \/ WRecv(w) \/ WAdd(w) \/ WPush(w)

(***************************************************************************)
(* The base station, streaming, puts frames on the data connection         *)
(***************************************************************************)
ServerSend ==
    /\ server.streaming
    /\ ~server.avail
    /\ server' = [server EXCEPT !.avail = TRUE]
    /\ UNCHANGED <<clientVars, threads, widgetVars, mainVars, lastCmd, histVars>>
    /\ UNCHANGED <<bufVars, recvVars, cmdVars, sockVars, avgVars, extVars>>

(***************************************************************************)
(* ScopeWidget.update, the slot of the 0 ms timer                          *)
(***************************************************************************)
\* update() with a snapshot one larger than the queue: range(qsize + 1)
UpdateBeginOffByOne ==
    /\ mpc = "idle"
    /\ timer
    /\ qsize' = Len(queue) + 1
    /\ mpc' = "drain"
    /\ tickSize' = Len(queue)
    /\ tickBase' = npushed
    /\ err' = ""
    /\ UNCHANGED <<clientVars, threads, widgetVars, mop, server, lastCmd,
                   clock, nframes, frameCap, npushed, ngot, lastGot>>
    /\ UNCHANGED <<bufVars, recvVars, cmdVars, sockVars, avgVars, extVars>>

\* q = self.queue; qsize = q.qsize()
UpdateBegin ==
    /\ mpc = "idle"
    /\ timer
    /\ qsize' = Len(queue)
    /\ mpc' = "drain"
    /\ tickSize' = Len(queue)
    /\ tickBase' = npushed
    /\ err' = ""
    /\ UNCHANGED <<clientVars, threads, widgetVars, mop, server, lastCmd,
                   clock, nframes, frameCap, npushed, ngot, lastGot>>
    /\ UNCHANGED <<bufVars, recvVars, cmdVars, sockVars, avgVars, extVars>>

\* a q.get() that returns the newest entry (queue.LifoQueue)
QGetLifo(q) == [packet |-> q[Len(q)], rest |-> SubSeq(q, 1, Len(q) - 1)]

\* q.get(): blocks while the queue is empty
QGet(q) == [packet |-> Head(q), rest |-> Tail(q)]

\* buffer.add_packet(packet): the Packet is now the newest of its buffer
AddPacket(added, packet) ==
    {x \in added : x[1] # packet.device_name} \cup {<<packet.device_name, packet.time>>}

\* update() with the loop  while q.qsize(): packet = q.get(); ...
UpdateGetReread ==
    /\ mpc = "drain"
    /\ qsize > 0
    /\ queue # <<>>
    /\ LET got == QGet(queue)
       IN /\ queue' = got.rest
          /\ lastGot' = got.packet.seq
          /\ ngot' = ngot + 1
          /\ IF got.packet.device_name \in buffers
             THEN /\ qsize' = Len(queue')
                  /\ lastAdded' = AddPacket(lastAdded, got.packet)
                  /\ UNCHANGED <<mpc, err>>
             ELSE /\ err' = "KeyError"
                  /\ qsize' = 0
                  /\ mpc' = "idle"
                  /\ UNCHANGED lastAdded
    /\ UNCHANGED <<clientVars, threads, timer, buffers, mop, server, lastCmd,
                   clock, nframes, frameCap, npushed, tickSize, tickBase>>
    /\ UNCHANGED <<bufVars, recvVars, cmdVars, sockVars, avgVars, moreVars>>

\* for _ in range(qsize): packet = q.get();
\*     buffer = self.buffers[packet.device_name]; buffer.add_packet(packet)
UpdateGet ==
    /\ mpc = "drain"
    /\ qsize > 0
    /\ queue # <<>>
    /\ LET got == QGet(queue)
       IN /\ queue' = got.rest
          /\ lastGot' = got.packet.seq
          /\ ngot' = ngot + 1
          /\ IF got.packet.device_name \in buffers
             THEN /\ qsize' = qsize - 1
                  /\ lastAdded' = AddPacket(lastAdded, got.packet)
                  /\ UNCHANGED <<mpc, err>>
             ELSE /\ err' = "KeyError"
                  /\ qsize' = 0
                  /\ mpc' = "idle"
                  /\ UNCHANGED lastAdded
    /\ UNCHANGED <<clientVars, threads, timer, buffers, mop, server, lastCmd,
                   clock, nframes, frameCap, npushed, tickSize, tickBase>>
    /\ UNCHANGED <<bufVars, recvVars, cmdVars, sockVars, avgVars, moreVars>>

\* the loop is over: update the curves, return
UpdateEnd ==
    /\ mpc = "drain"
    /\ qsize = 0
    /\ mpc' = "idle"
    /\ tickSize' = 0
    /\ tickBase' = 0
    /\ UNCHANGED <<clientVars, threads, widgetVars, mop, qsize, err, server, lastCmd,
                   clock, nframes, frameCap, npushed, ngot, lastGot>>
    /\ UNCHANGED <<bufVars, recvVars, cmdVars, sockVars, avgVars, extVars>>

(***************************************************************************)
(* The program: every handler of the main thread, the worker threads and   *)
(* the base station                                                        *)
(***************************************************************************)
Next ==
    \/ OpenConnection
    \/ ShowEvent
    \/ StopStream
    \/ Tare
    \/ CloseConnection
    \/ Close
    \/ StopJoin
    \/ StopSend
    \/ TareStart
    \/ UpdateBegin
    \/ UpdateGet
    \/ UpdateEnd
    \/ ServerSend
    \/ \E w \in 1..MaxThreads : Worker(w)

Spec == Init /\ [][Next]_vars

(***************************************************************************)
(* One stream at a time: the program as long as start_stream is not run    *)
(* while a worker thread is alive.                                         *)
(***************************************************************************)
InitStream == InitClient(MaxFrames) /\ InitServer /\ NoBuffers /\ RecvIdle /\ CommandIdle
              /\ SocketsFresh /\ NoAverage

ShowEventIdle ==
    /\ AliveThreads = {}
    /\ ShowEvent

NextStream ==
    \/ OpenConnection
    \/ ShowEventIdle
    \/ StopStream
    \/ Tare
    \/ CloseConnection
    \/ Close
    \/ StopJoin
    \/ StopSend
    \/ TareStart
    \/ UpdateBegin
    \/ UpdateGet
    \/ UpdateEnd
    \/ ServerSend
    \/ \E w \in 1..MaxThreads : WorkerOpen(w)

SpecStream == InitStream /\ [][NextStream]_vars

(***************************************************************************)
(* One producer, one consumer: one connection, one start_stream, the       *)
(* worker putting Packets and the timer ticks draining them.               *)
(***************************************************************************)
ShowEventFirst ==
    /\ clock = 0
    /\ connected
    /\ ShowEvent

OpenConnectionFirst ==
    /\ ~connected
    /\ OpenConnection

NextQueue ==
    \/ OpenConnectionFirst
    \/ ShowEventFirst
    \/ UpdateBegin
    \/ UpdateGet
    \/ UpdateEnd
    \/ ServerSend
    \/ \E w \in 1..MaxThreads : WorkerOpen(w)

SpecQueue == InitStream /\ [][NextQueue]_vars

\* The main thread is not starved: a running update() takes its next step.
SpecQueueFair == SpecQueue /\ WF_vars(UpdateGet) /\ WF_vars(UpdateEnd)

(***************************************************************************)
(* bomi/datastructure.py: YostBuffer and DelsysBuffer                      *)
(***************************************************************************)
\* Neither a base station nor a connection: the client as constructed.
NoServer ==
    server = [streaming |-> FALSE, avail |-> FALSE, sensors |-> EmptyTable,
              fi |-> Unset, ms |-> Unset]

\* np.zeros(bufsize) / one row of np.zeros((bufsize, n))
Zeros(n) == [i \in 1..n |-> 0]

\* YostBuffer.__init__: the arrays, the angle in use and the CSV header row
YostBufferInit(bufsize) ==
    [bufsize |-> bufsize,
     timestamp |-> Zeros(bufsize),
     data |-> [i \in 1..bufsize |-> Zeros(4)],
     last_angle |-> 0,
     rows |-> 1]

\* DelsysBuffer.__init__
DelsysBufferInit(bufsize) ==
    [bufsize |-> bufsize,
     timestamp |-> Zeros(bufsize),
     data |-> [i \in 1..bufsize |-> Zeros(NSlots)]]

\* arr[-1] = x without the shift before it
ShiftInOverwrite(arr, x) == [arr EXCEPT ![Len(arr)] = x]

\* np.append(arr, x): the array grows
ShiftInAppend(arr, x) == Append(arr, x)

\* arr[:-1] = arr[1:]; arr[-1] = x
ShiftIn(arr, x) == [i \in 1..Len(arr) |-> IF i < Len(arr) THEN arr[i + 1] ELSE x]

\* _packet = (packet.roll, packet.pitch, packet.yaw, abs(packet.roll) + abs(packet.pitch))
YostRow(packet) ==
    <<packet.roll, packet.pitch, packet.yaw, Abs(packet.roll) + Abs(packet.pitch)>>

\* The Packets a Yost sensor may deliver as its n-th one.
YostPackets(n) ==
    {[pitch |-> 0 - 3, yaw |-> 4, roll |-> r, battery |-> 100, t |-> n, name |-> "1"] :
        r \in {0 - 1, 2}}

\* YostBuffer.add_packet; _angle_in_use is -1, the last label
YostAddPacket ==
    /\ Len(yhist) < MaxInserts
    /\ \E packet \in YostPackets(Len(yhist) + 1) :
        /\ ybuf' = [ybuf EXCEPT !.rows = @ + 1,
                                !.data = ShiftIn(@, YostRow(packet)),
                                !.timestamp = ShiftIn(@, packet.t),
                                !.last_angle = YostRow(packet)[4]]
        /\ yhist' = Append(yhist, packet)
    /\ UNCHANGED <<clientVars, threads, widgetVars, mainVars, server, lastCmd, histVars,
                   dbuf, dhist, now, recvVars, cmdVars, sockVars, avgVars, extVars>>

\* DelsysBuffer.add_packet: the timestamp is default_timer() at the call
DelsysAddPacket ==
    /\ Len(dhist) < MaxInserts
    /\ \E p \in FramePatterns :
        /\ now' = now + 1
        /\ dbuf' = [dbuf EXCEPT !.data = ShiftIn(@, FrameOf(p)),
                                !.timestamp = ShiftIn(@, now')]
        /\ dhist' = Append(dhist, [t |-> now', packet |-> FrameOf(p)])
    /\ UNCHANGED <<clientVars, threads, widgetVars, mainVars, server, lastCmd, histVars,
                   ybuf, yhist, recvVars, cmdVars, sockVars, avgVars, extVars>>

\* One YostBuffer and one DelsysBuffer, each constructed with some bufsize >= 1.
InitBuffer ==
    /\ InitClient(0)
    /\ NoServer
    /\ \E cy \in 1..MaxCap, cd \in 1..MaxCap :
        /\ ybuf = YostBufferInit(cy)
        /\ dbuf = DelsysBufferInit(cd)
    /\ yhist = <<>>
    /\ dhist = <<>>
    /\ now = 0
    /\ RecvIdle
    /\ CommandIdle
    /\ SocketsFresh
    /\ NoAverage

NextBuffer ==
    \/ YostAddPacket
    \/ DelsysAddPacket

SpecBuffer == InitBuffer /\ [][NextBuffer]_vars

(***************************************************************************)
(* DelsysBuffer.add_packets: the numpy slice assignments, one by one       *)
(***************************************************************************)
\* arr[:-n] is rows 1..NegIndex(C, n) and arr[-n:] is the rows after them:
\* -0 is 0, and an index before the first row is clipped to it
NegIndex(C, n) == IF n = 0 \/ n > C THEN 0 ELSE C - n

\* arr[n:] is the rows after row PosIndex(C, n): an index past the end is clipped
PosIndex(C, n) == IF n > C THEN C ELSE n

\* the rows lo+1 .. hi of arr
NpSlice(arr, lo, hi) == [i \in 1..(hi - lo) |-> arr[lo + i]]

\* arr[lo:hi] = src needs a source of the same length or of length one,
\* which is broadcast; anything else raises ValueError
NpCanAssign(dstLen, srcLen) == srcLen = dstLen \/ srcLen = 1

\* arr after arr[lo:hi] = src
NpAssign(arr, lo, hi, src) ==
    [i \in 1..Len(arr) |->
        IF lo < i /\ i <= hi /\ src # <<>>
        THEN (IF Len(src) = 1 THEN src[1] ELSE src[((i - lo - 1) % Len(src)) + 1])
        ELSE arr[i]]

\* add_packets(packets) on buffer buf at time t: the four assignments in
\* order, stopping at the first that raises
AddPackets(buf, packets, t) ==
    LET C == buf.bufsize
        n == Len(packets)
        ok1 == NpCanAssign(NegIndex(C, n), C - PosIndex(C, n))
        data1 == NpAssign(buf.data, 0, NegIndex(C, n), NpSlice(buf.data, PosIndex(C, n), C))
        ok2 == NpCanAssign(C - NegIndex(C, n), n)
        data2 == NpAssign(data1, NegIndex(C, n), C, packets)
        ts1 == NpAssign(buf.timestamp, 0, NegIndex(C, n),
                        NpSlice(buf.timestamp, PosIndex(C, n), C))
        ts2 == NpAssign(ts1, NegIndex(C, n), C, [k \in 1..n |-> t])
    IN IF ~ok1 THEN [buf |-> buf, err |-> "ValueError"]
       ELSE IF ~ok2 THEN [buf |-> [buf EXCEPT !.data = data1], err |-> "ValueError"]
       ELSE [buf |-> [buf EXCEPT !.data = data2, !.timestamp = ts2], err |-> ""]

\* DelsysBuffer.add_packets with a batch of n frames, 0 <= n <= bufsize + 1
DelsysAddPackets ==
    /\ Len(dhist) < MaxInserts
    /\ \E n \in 0..(dbuf.bufsize + 1) : \E ps \in [1..n -> FramePatterns] :
        LET packets == [k \in 1..n |-> FrameOf(ps[k])]
            r == AddPackets(dbuf, packets, now + 1)
        IN /\ Len(dhist) + n <= MaxInserts
           /\ dbuf' = r.buf
           /\ err' = r.err
           /\ now' = IF r.err = "" THEN now + 1 ELSE now
           /\ dhist' = dhist \o [k \in 1..n |-> [t |-> now + 1, packet |-> packets[k]]]
    /\ UNCHANGED <<clientVars, threads, widgetVars, mpc, mop, qsize, server, lastCmd,
                   histVars, ybuf, yhist, recvVars, cmdVars, sockVars, avgVars, extVars>>

NextBatch ==
    \/ DelsysAddPacket
    \/ DelsysAddPackets

SpecBatch == InitBuffer /\ [][NextBatch]_vars

(***************************************************************************)
(* recv_sz(self.emg_data_sock, 4 * 16), one sock.recv at a time            *)
(***************************************************************************)
\* 16 devices, 4 byte float
FrameBytes == 4 * NSlots

\* The n-th byte the base station writes on the data connection.
StreamByte(n) == n % 256

\* a sock.recv that is asked for sz bytes whatever buf holds
RecvRequestWhole(buf, sz) == sz

\* sock.recv(sz - len(buf))
RecvRequest(buf, sz) == sz - Len(buf)

\* buf = b""
RecvCall ==
    /\ rpc = "idle"
    /\ Len(rframes) < MaxRecvFrames
    /\ rpc' = "loop"
    /\ rbuf' = <<>>
    /\ rask' = 0
    /\ UNCHANGED <<clientVars, threads, widgetVars, mainVars, server, lastCmd, histVars,
                   bufVars, rpos, rframes, rclosed, rzero, cmdVars, sockVars, avgVars, extVars>>

\* while len(buf) < sz: buf += sock.recv(sz - len(buf)); recv returns between
\* one byte and the size asked for
RecvChunk ==
    /\ rpc = "loop"
    /\ Len(rbuf) < FrameBytes
    /\ ~rclosed
    /\ \E n \in 1..RecvRequest(rbuf, FrameBytes) :
        /\ rbuf' = rbuf \o [i \in 1..n |-> StreamByte(rpos + i)]
        /\ rpos' = rpos + n
    /\ rask' = Len(rbuf) + RecvRequest(rbuf, FrameBytes)
    /\ UNCHANGED <<clientVars, threads, widgetVars, mainVars, server, lastCmd, histVars,
                   bufVars, rpc, rframes, rclosed, rzero, cmdVars, sockVars, avgVars, extVars>>

\* return buf
RecvReturn ==
    /\ rpc = "loop"
    /\ Len(rbuf) >= FrameBytes
    /\ rframes' = Append(rframes, rbuf)
    /\ rbuf' = <<>>
    /\ rask' = 0
    /\ rpc' = "idle"
    /\ UNCHANGED <<clientVars, threads, widgetVars, mainVars, server, lastCmd, histVars,
                   bufVars, rpos, rclosed, rzero, cmdVars, sockVars, avgVars, extVars>>

\* the base station closes the data connection (end of stream)
PeerClose ==
    /\ ~rclosed
    /\ rclosed' = TRUE
    /\ UNCHANGED <<clientVars, threads, widgetVars, mainVars, server, lastCmd, histVars,
                   bufVars, rpc, rbuf, rpos, rask, rframes, rzero, cmdVars, sockVars,
                   avgVars, extVars>>

\* while len(buf) < sz: buf += sock.recv(sz - len(buf)) on a connection the
\* peer has closed: recv returns b"" at once, buf stays as it is and the loop
\* goes on
RecvEof ==
    /\ rpc = "loop"
    /\ Len(rbuf) < FrameBytes
    /\ rclosed
    /\ rzero < MaxZeroRecvs
    /\ rzero' = rzero + 1
    /\ rbuf' = rbuf \o <<>>
    /\ rask' = Len(rbuf) + RecvRequest(rbuf, FrameBytes)
    /\ UNCHANGED <<clientVars, threads, widgetVars, mainVars, server, lastCmd, histVars,
                   bufVars, rpc, rpos, rframes, rclosed, cmdVars, sockVars, avgVars, extVars>>

InitRecv == InitClient(0) /\ NoServer /\ NoBuffers /\ RecvIdle /\ CommandIdle /\ SocketsFresh
            /\ NoAverage

NextRecv ==
    \/ RecvCall
    \/ RecvChunk
    \/ RecvReturn
    \/ PeerClose
    \/ RecvEof

SpecRecv == InitRecv /\ [][NextRecv]_vars

(***************************************************************************)
(* The command socket, one send / one recv at a time: open_connection      *)
(* (settings, queries, query_devices / query_device), send_cmd and         *)
(* send_cmds.  The base station writes one reply per command it receives.  *)
(***************************************************************************)
\* A command is <<slot, text, channel>>; slot and channel are 0 where the
\* command names none ("SENSOR {i} CHANNEL {j} GAIN?" is <<i, "GAIN?", j>>).
ConfigureCmds == <<"ENDIAN LITTLE", "BACKWARDS COMPATIBILITY OFF",
                   "BACKWARDS COMPATIBILITY?", "UPSAMPLING?", "FRAME INTERVAL?",
                   "MAX SAMPLES EMG?", "MAX SAMPLES AUX?", "ENDIANNESS?",
                   "BASE FIRMWARE?", "BASE SERIAL?">>

\* query_device: the commands sent before the channel loop, in program order
SensorCmds == <<"PAIRED?", "ACTIVE?", "TYPE?", "SETMODE 40", "MODE?", "SERIAL?",
                "FIRMWARE?", "EMGCHANNELCOUNT?", "AUXCHANNELCOUNT?", "STARTINDEX?",
                "CHANNELCOUNT?">>

\* DSChannel(gain=..., samples=..., rate=..., units=...): keyword arguments
\* are evaluated left to right
ChannelCmds == <<"GAIN?", "SAMPLES?", "RATE?", "UNITS?">>

\* a query_device that asks STARTINDEX? only after CHANNELCOUNT?
QueryDeviceCmdStartIndexLast(i, n) ==
    LET swapped == [SensorCmds EXCEPT ![10] = "CHANNELCOUNT?", ![11] = "STARTINDEX?"]
    IN  IF n <= Len(SensorCmds)
        THEN <<i, swapped[n], 0>>
        ELSE <<i, ChannelCmds[((n - Len(SensorCmds) - 1) % Len(ChannelCmds)) + 1],
               ((n - Len(SensorCmds) - 1) \div Len(ChannelCmds)) + 1>>

\* The n-th command query_device(i) sends.
QueryDeviceCmd(i, n) ==
    IF n <= Len(SensorCmds)
    THEN <<i, SensorCmds[n], 0>>
    ELSE <<i, ChannelCmds[((n - Len(SensorCmds) - 1) % Len(ChannelCmds)) + 1],
           ((n - Len(SensorCmds) - 1) \div Len(ChannelCmds)) + 1>>

\* The command the main thread is about to send / waits the reply of.
CommandAt(pc) ==
    CASE pc.op = "open_connection" -> <<0, ConfigureCmds[pc.n], 0>>
      [] pc.op = "query_device" -> QueryDeviceCmd(pc.i, pc.n)
      [] OTHER -> <<0, pc.cmds[pc.n], 0>>

\* an open_connection whose asserts are compiled away
AssertFailsNever(n, reply) == FALSE

\* assert cmd("ENDIAN LITTLE") == "OK"; assert cmd("BACKWARDS COMPATIBILITY OFF") == "OK"
AssertFails(n, reply) == n \in {1, 2} /\ reply # "OK"

\* a query_device that looks at the PAIRED? reply only
QueryDeviceSkipsUnpairedOnly(n, reply) == n = 1 /\ reply = "NO"

\* if cmd(PAIRED?) == "NO": return;  if cmd(ACTIVE?) == "NO": return
QueryDeviceSkips(n, reply) == n \in {1, 2} /\ reply = "NO"

\* What the base station may answer to the n-th command of open_connection.
ConfigureReplies(n) ==
    CASE n \in {1, 2} -> {"OK", "INVALID COMMAND"}
      [] n = 5 -> ServerFrameIntervals
      [] n = 6 -> ServerMaxSamples
      [] OTHER -> {"-"}

PairedSoFar == {s \in Slots : replies[s] \in {"paired", "inactive", "active"}}

\* What the base station may answer to the n-th command of query_device(i).
QueryDeviceReplies(i, n) ==
    CASE n = 1 -> IF Cardinality(PairedSoFar) < MaxPaired THEN {"YES", "NO"} ELSE {"NO"}
      [] n = 2 -> {"YES", "NO"}
      [] n = 10 -> {i}
      [] n = 11 -> 1..MaxChannels
      [] OTHER -> {"-"}

\* Commands a caller gives to send_cmd and send_cmds.
CallerCmds == {"UPSAMPLING?", "ENDIANNESS?"}
Batches == UNION {[1..m -> CallerCmds] : m \in 1..MaxBatch}

\* open_connection up to the first command
OpenConnectionCall ==
    /\ cpc.op = "none"
    /\ nopens < MaxOpens
    /\ nopens' = nopens + 1
    /\ \E outcome \in {"ok", "timeout", "refused"} :
        IF ~connected /\ outcome # "ok"
        THEN /\ err' = IF outcome = "timeout" THEN "Failed to connect to Base Station"
                                              ELSE "ConnectionRefusedError"
             /\ timeouts' = [NewSockets EXCEPT !.command = ConnectTimeout]
             /\ waits' = waits \cup {<<"command connect", ConnectTimeout>>}
             /\ UNCHANGED <<connected, emg_data_sock, cpc, sentlog>>
        ELSE /\ connected' = TRUE
             /\ emg_data_sock' = "connected"
             /\ timeouts' = IF connected THEN timeouts
                                         ELSE [NewSockets EXCEPT !.command = ReplyTimeout]
             /\ waits' = waits \cup (IF connected THEN {} ELSE ConnectWaits)
             /\ err' = ""
             /\ cpc' = [NoCommand EXCEPT !.op = "open_connection", !.phase = "send", !.n = 1]
             /\ sentlog' = <<>>
    /\ UNCHANGED <<sensors, sensor_idx, n_sensors, start_time, last_frame_time,
                   _done_streaming, _worker_thread, frame_interval, max_samples_emg,
                   emg_sample_interval, threads, widgetVars, mpc, mop, qsize, server,
                   lastCmd, histVars, bufVars, recvVars, unread, visited, replies,
                   lastReply, avgVars, extVars>>

\* send_cmd: self.command_sock.send(cmd.encode() + b"\r\n\r\n")
CommandSend ==
    /\ cpc.phase = "send"
    /\ cpc.op \in {"open_connection", "query_device", "send_cmd"}
    /\ unread' = unread + 1
    /\ sentlog' = Append(sentlog, CommandAt(cpc))
    /\ cpc' = [cpc EXCEPT !.phase = "recv"]
    /\ UNCHANGED <<clientVars, threads, widgetVars, mainVars, server, lastCmd, histVars,
                   bufVars, recvVars, visited, replies, nopens, lastReply,
                   sockVars, avgVars, extVars>>

\* open_connection: recv of send_cmd and the statement that uses the reply
ConfigureRecv ==
    /\ cpc.op = "open_connection"
    /\ cpc.phase = "recv"
    /\ unread > 0
    /\ unread' = unread - 1
    /\ waits' = waits \cup {<<"reply read", timeouts.command>>}
    /\ UNCHANGED timeouts
    /\ \E reply \in ConfigureReplies(cpc.n) :
        /\ lastReply' = reply
        /\ IF AssertFails(cpc.n, reply)
           THEN /\ err' = "AssertionError"
                /\ cpc' = NoCommand
                /\ UNCHANGED <<frame_interval, max_samples_emg, emg_sample_interval,
                               sentlog, visited, replies>>
           ELSE /\ frame_interval' = IF cpc.n = 5 THEN reply ELSE frame_interval
                /\ max_samples_emg' = IF cpc.n = 6 THEN reply ELSE max_samples_emg
                /\ emg_sample_interval' = IF cpc.n = 6 THEN frame_interval \div reply
                                                       ELSE emg_sample_interval
                /\ IF cpc.n < Len(ConfigureCmds)
                   THEN /\ cpc' = [cpc EXCEPT !.phase = "send", !.n = @ + 1]
                        /\ UNCHANGED <<sentlog, visited, replies>>
                   ELSE \* self.query_devices(): for i in range(1, 17)
                        /\ cpc' = [NoCommand EXCEPT !.op = "query_device", !.phase = "send",
                                                    !.n = 1, !.i = 1]
                        /\ sentlog' = <<>>
                        /\ visited' = <<1>>
                        /\ replies' = NoReplies
                /\ err' = err
    /\ UNCHANGED <<connected, emg_data_sock, sensors, sensor_idx, n_sensors, start_time,
                   last_frame_time, _done_streaming, _worker_thread, threads, widgetVars,
                   mpc, mop, qsize, server, lastCmd, histVars, bufVars, recvVars, nopens,
                   avgVars, extVars>>

\* query_device(i): recv of send_cmd and the statement that uses the reply;
\* a return is followed by self.sensors[i] = ... and the next round of the
\* loop of query_devices, or by the two comprehensions after the loop
QueryDeviceRecv ==
    /\ cpc.op = "query_device"
    /\ cpc.phase = "recv"
    /\ unread > 0
    /\ unread' = unread - 1
    /\ waits' = waits \cup {<<"reply read", timeouts.command>>}
    /\ UNCHANGED timeouts
    /\ \E reply \in QueryDeviceReplies(cpc.i, cpc.n) :
        LET i == cpc.i
            n == cpc.n
            skip == QueryDeviceSkips(n, reply)
            cc == IF n = 11 THEN reply ELSE cpc.cc
            si == IF n = 10 THEN reply ELSE cpc.si
            returns == skip \/ (n >= Len(SensorCmds) /\ n = Len(SensorCmds) + Len(ChannelCmds) * cc)
            result == IF skip THEN None ELSE si
        IN  /\ lastReply' = reply
            /\ replies' = IF n = 1 THEN [replies EXCEPT ![i] = IF reply = "NO" THEN "unpaired"
                                                                             ELSE "paired"]
                          ELSE IF n = 2 THEN [replies EXCEPT ![i] = IF reply = "NO" THEN "inactive"
                                                                                  ELSE "active"]
                          ELSE replies
            /\ IF ~returns
               THEN /\ cpc' = [cpc EXCEPT !.phase = "send", !.n = n + 1, !.cc = cc, !.si = si]
                    /\ UNCHANGED <<sensors, sensor_idx, n_sensors, err, sentlog, visited>>
               ELSE IF i \notin DOMAIN sensors
               THEN \* self.sensors[i] = ... on the empty list close() left
                    /\ err' = "IndexError"
                    /\ cpc' = NoCommand
                    /\ UNCHANGED <<sensors, sensor_idx, n_sensors, sentlog, visited>>
               ELSE /\ sensors' = [sensors EXCEPT ![i] = result]
                    /\ sentlog' = <<>>
                    /\ err' = err
                    /\ IF i < NSlots
                       THEN /\ cpc' = [NoCommand EXCEPT !.op = "query_device",
                                                        !.phase = "send", !.n = 1, !.i = i + 1]
                            /\ visited' = Append(visited, i + 1)
                            /\ UNCHANGED <<sensor_idx, n_sensors>>
                       ELSE /\ cpc' = NoCommand
                            /\ sensor_idx' = SensorIdxOf(sensors')
                            /\ n_sensors' = Len(NotNone(sensors'))
                            /\ visited' = visited
    /\ UNCHANGED <<connected, emg_data_sock, start_time, last_frame_time, _done_streaming,
                   _worker_thread, frame_interval, max_samples_emg, emg_sample_interval,
                   threads, widgetVars, mpc, mop, qsize, server, lastCmd, histVars,
                   bufVars, recvVars, nopens, avgVars, extVars>>

\* A caller runs send_cmd(cmd) on the connected client.
SendCmdCall ==
    /\ cpc.op = "none"
    /\ connected
    /\ \E c \in CallerCmds :
        cpc' = [NoCommand EXCEPT !.op = "send_cmd", !.phase = "send", !.n = 1, !.cmds = <<c>>]
    /\ sentlog' = <<>>
    /\ UNCHANGED <<clientVars, threads, widgetVars, mainVars, server, lastCmd, histVars,
                   bufVars, recvVars, unread, visited, replies, nopens, lastReply,
                   sockVars, avgVars, extVars>>

\* return recv(self.command_sock)
SendCmdRecv ==
    /\ cpc.op = "send_cmd"
    /\ cpc.phase = "recv"
    /\ unread > 0
    /\ unread' = unread - 1
    /\ lastReply' = "-"
    /\ cpc' = NoCommand
    /\ UNCHANGED <<clientVars, threads, widgetVars, mainVars, server, lastCmd, histVars,
                   bufVars, recvVars, sentlog, visited, replies, nopens,
                   sockVars, avgVars, extVars>>

\* A caller runs send_cmds(cmds) on the connected client.
SendCmdsCall ==
    /\ cpc.op = "none"
    /\ connected
    /\ \E cmds \in Batches :
        cpc' = [NoCommand EXCEPT !.op = "send_cmds", !.phase = "send", !.n = 1, !.cmds = cmds]
    /\ sentlog' = <<>>
    /\ UNCHANGED <<clientVars, threads, widgetVars, mainVars, server, lastCmd, histVars,
                   bufVars, recvVars, unread, visited, replies, nopens, lastReply,
                   sockVars, avgVars, extVars>>

\* for cmd in cmds: self.command_sock.send(cmd.encode() + b"\r\n"); the
\* closing send(b"\r\n") goes with the last command
SendCmdsSend ==
    /\ cpc.op = "send_cmds"
    /\ cpc.phase = "send"
    /\ unread' = unread + 1
    /\ sentlog' = Append(sentlog, CommandAt(cpc))
    /\ cpc' = IF cpc.n < Len(cpc.cmds) THEN [cpc EXCEPT !.n = @ + 1]
                                       ELSE [cpc EXCEPT !.phase = "recv", !.n = 1]
    /\ UNCHANGED <<clientVars, threads, widgetVars, mainVars, server, lastCmd, histVars,
                   bufVars, recvVars, visited, replies, nopens, lastReply,
                   sockVars, avgVars, extVars>>

\* return [recv(self.command_sock) for _ in cmds]
SendCmdsRecv ==
    /\ cpc.op = "send_cmds"
    /\ cpc.phase = "recv"
    /\ unread > 0
    /\ unread' = unread - 1
    /\ lastReply' = "-"
    /\ cpc' = IF cpc.n < Len(cpc.cmds) THEN [cpc EXCEPT !.n = @ + 1] ELSE NoCommand
    /\ UNCHANGED <<clientVars, threads, widgetVars, mainVars, server, lastCmd, histVars,
                   bufVars, recvVars, sentlog, visited, replies, nopens,
                   sockVars, avgVars, extVars>>

\* A table an earlier discovery has left: descriptors at slots 2 and 16.
StaleTable == [i \in 0..NSlots |-> IF i \in {2, NSlots} THEN i ELSE None]

\* The client before the calls that are followed: as constructed, after
\* close() (the sensor table is an empty list), or connected by an earlier
\* open_connection that found two sensors.
InitCommand ==
    /\ \E prior \in {"constructed", "closed", "connected"} :
        /\ connected = (prior = "connected")
        /\ emg_data_sock = IF prior = "connected" THEN "connected" ELSE "unconnected"
        /\ sensors = IF prior = "constructed" THEN EmptyTable
                     ELSE IF prior = "closed" THEN <<>> ELSE StaleTable
        /\ sensor_idx = IF prior = "connected" THEN SensorIdxOf(StaleTable) ELSE <<>>
        /\ n_sensors = IF prior = "connected" THEN Len(NotNone(StaleTable)) ELSE 0
        /\ timeouts = IF prior = "connected" THEN [NewSockets EXCEPT !.command = ReplyTimeout]
                                             ELSE NewSockets
    /\ waits = {}
    /\ start_time = 0
    /\ last_frame_time = Unset
    /\ _done_streaming = FALSE
    /\ _worker_thread = None
    /\ frame_interval = Unset
    /\ max_samples_emg = Unset
    /\ emg_sample_interval = Unset
    /\ threads = [w \in 1..MaxThreads |-> NoThread]
    /\ queue = <<>>
    /\ timer = FALSE
    /\ buffers = {}
    /\ mpc = "idle"
    /\ mop = "none"
    /\ qsize = 0
    /\ err = ""
    /\ lastCmd = ""
    /\ clock = 0
    /\ nframes = 0
    /\ frameCap = 0
    /\ npushed = 0
    /\ ngot = 0
    /\ lastGot = 0
    /\ tickSize = 0
    /\ tickBase = 0
    /\ NoServer
    /\ NoBuffers
    /\ RecvIdle
    /\ CommandIdle
    /\ NoAverage

NextCommand ==
    \/ OpenConnectionCall
    \/ CommandSend
    \/ ConfigureRecv
    \/ QueryDeviceRecv
    \/ SendCmdCall
    \/ SendCmdRecv
    \/ SendCmdsCall
    \/ SendCmdsSend
    \/ SendCmdsRecv

SpecCommand == InitCommand /\ [][NextCommand]_vars

(***************************************************************************)
(* Properties of the stream lifecycle                                      *)
(***************************************************************************)
\* A step of stop_stream that sends STOP on the command socket.
StopSent == mpc = "send" /\ connected /\ lastCmd' \in {"STOP", "QUIT"}

\* C1: stop_stream sets the stop flag, joins the worker and only then sends
\* STOP, so that STOP is never sent while a worker thread of the client is alive.
StopOnlyAfterWorkersExit == [][StopSent => AliveThreads = {}]_vars

\* C2: at any time at most one worker thread of the client is alive, for every
\* sequence of start_stream, stop_stream and close_connection calls.
AtMostOneWorker == Cardinality(AliveThreads) <= 1

\* C14: stop_stream on a client that has no worker (none started since the
\* client was constructed or disconnected, none alive) is a no-op: the step
\* after the join sends nothing on the command channel and leaves the client
\* state unchanged.
StopWithoutWorkerIsNoOp ==
    [][(mpc = "send" /\ mop = "stop" /\ _worker_thread = None /\ AliveThreads = {})
          => (lastCmd' = lastCmd /\ UNCHANGED clientVars)]_vars

\* ConnectionState of the client: Streaming while a worker thread is alive.
ConnState ==
    IF ~connected THEN "Disconnected"
    ELSE IF AliveThreads # {} THEN "Streaming"
    ELSE "Connected"

\* C15: the connection state changes only by Disconnected -> Connected,
\* Connected -> Streaming, Streaming -> Connected and Connected -> Disconnected.
OnlyPermittedTransitions ==
    [][ConnState' # ConnState =>
          <<ConnState, ConnState'>> \in {<<"Disconnected", "Connected">>,
                                         <<"Connected", "Streaming">>,
                                         <<"Streaming", "Connected">>,
                                         <<"Connected", "Disconnected">>}]_vars

\* The step of close_connection or close that follows the join of the worker:
\* STOP, QUIT, closing the sockets and the reset.
Disconnect == mpc = "send" /\ mop \in {"close_connection", "close"}

\* C16: a disconnect of a connected client, after the stream is stopped, sends
\* QUIT as its last command and closes the sockets; on a client that is not
\* connected it sends nothing.
DisconnectSendsQuit ==
    [][Disconnect =>
          IF connected
          THEN lastCmd' = "QUIT" /\ emg_data_sock' = "unconnected"
          ELSE lastCmd' = lastCmd]_vars

\* The state _init_state and __init__ give a client.
ClientDefaults ==
    /\ connected = FALSE
    /\ sensors = EmptyTable
    /\ sensor_idx = <<>>
    /\ n_sensors = 0
    /\ start_time = 0
    /\ last_frame_time = Unset
    /\ _worker_thread = None

\* C17: after a disconnect, from whatever state, every state variable of the
\* client has its pre-connect default; a disconnect of a client in that state
\* changes nothing and sends nothing.
DisconnectResets ==
    [][Disconnect =>
          /\ ClientDefaults'
          /\ ClientDefaults => (lastCmd' = lastCmd /\ err' = "")]_vars

\* C19: a timeout or a refusal in the connect phase of open_connection ends in
\* the returned error string: no exception of the connect phase reaches the
\* caller, and the client stays disconnected.
ConnectFailureIsReturned ==
    /\ err # "ConnectionRefusedError"
    /\ err = "Failed to connect to Base Station" => ~connected

\* C20: a worker thread ends only by observing the stop flag; no error raised
\* inside the loop ends it.
WorkerExitsOnlyOnStopFlag ==
    [][\A w \in 1..MaxThreads : (Alive(w) /\ ~(Alive(w))') => _done_streaming]_vars

\* C21: a Packet leaves the queue only through the q.get() of update(), which
\* adds it to the buffer of its device: no Packet is removed from the queue
\* without being added to a buffer.
NoPacketDiscarded ==
    [][Len(queue') < Len(queue) =>
          /\ mpc = "drain"
          /\ ngot' = ngot + 1
          /\ Head(queue).device_name \in buffers]_vars

\* C22: the sensors a live worker streams have pairwise distinct device
\* names, so each buffer receives the Packets of one device.
DeviceNamesDistinct ==
    \A w \in AliveThreads :
        LET cs == threads[w].connected_sensors
        IN  \A m, n \in 1..Len(cs) :
                m # n => Str(cs[m].start_idx) # Str(cs[n].start_idx)

\* C23: while a worker thread is alive the main thread writes neither
\* start_time nor the sensor table, and last_frame_time is written by the
\* worker's recv_emg only.
ConsumerLeavesWorkerStateAlone ==
    [][AliveThreads # {} =>
          /\ start_time' = start_time
          /\ sensors' = sensors
          /\ last_frame_time' # last_frame_time =>
                \E w \in AliveThreads : threads[w].pc = "add"]_vars

\* C27: every blocking socket operation of the connect phase (the connect of
\* the command socket, the banner read, the connect of the data socket, the
\* reply reads of configuration and discovery) is performed with a timeout
\* set on its socket, and every frame read of the worker with none.
ConnectPhaseHasTimeouts ==
    \A x \in waits :
        IF x[1] = "frame read" THEN x[2] = None ELSE x[2] # None

\* C28: an open_connection that connects a disconnected client to a
\* responsive base station returns no error and leaves a sensor table of 17
\* slots holding what the station reports, also after close_connection or close.
ReopenAfterDisconnectSucceeds ==
    [][(mpc = "idle" /\ ~connected /\ connected') =>
          /\ err' = ""
          /\ DOMAIN sensors' = 0..NSlots
          /\ \A i \in Slots : sensors'[i] = server.sensors[i]]_vars

\* C29: the step of close_connection or close that closes the two sockets is
\* taken only when no worker thread of the client is alive.
SocketsClosedOnlyAfterWorkersExit ==
    [][Disconnect => AliveThreads = {}]_vars

\* The worker stop_stream is joining, if it is alive.
JoinedWorkerAlive ==
    IF _worker_thread = None THEN FALSE ELSE Alive(_worker_thread)

\* C30: while stop_stream waits in join() the worker it waits for can always
\* take its next step without a further frame from the base station, so that
\* a fairly scheduled worker reaches the top of its loop and exits.
StopNeedsNoFurtherFrame ==
    (mpc = "join" /\ JoinedWorkerAlive /\ nframes < frameCap)
        => ENABLED WorkerOpen(_worker_thread)

(***************************************************************************)
(* Properties of the Packet queue between the worker and update()          *)
(***************************************************************************)
\* C26: a worker that has a Packet to put can always put it, whatever the
\* number of Packets already queued: queue.put never blocks and never fails.
PutNeverBlocks ==
    \A w \in 1..MaxThreads : threads[w].pc = "push" => ENABLED WPush(w)

\* A worker is about to put a Packet on a queue that already holds three.
PutNeverBlocksWitness ==
    \E w \in 1..MaxThreads : threads[w].pc = "push" /\ Len(queue) >= 3

\* C3: with one worker putting Packets and update() draining them, the Packets
\* got so far are exactly the first ngot Packets put, in the order they were put,
\* and the queue holds exactly the Packets put since, in that order: none is
\* lost, none is got twice.
QueueFifoNoLoss ==
    /\ lastGot = ngot
    /\ ngot + Len(queue) = npushed
    /\ \A i \in 1..Len(queue) : queue[i].seq = ngot + i

\* Packets have been got by more than one q.get, the worker has put a Packet
\* during the running drain and Packets are still queued.
QueueFifoNoLossWitness ==
    /\ mpc = "drain"
    /\ ngot >= 2
    /\ npushed > tickBase
    /\ Len(queue) >= 2

\* C4: a tick of update() reads the queue size once and pops exactly that many
\* Packets, the ones queued when it read the size; the Packets the worker puts
\* during the drain are not popped in that tick and stay in the queue.
DrainPopsSnapshot ==
    mpc = "drain" =>
        /\ qsize <= tickSize
        /\ ngot = tickBase - qsize
        /\ lastGot <= tickBase
        /\ Len(queue) = qsize + (npushed - tickBase)
        /\ \A i \in 1..Len(queue) : (i > qsize) <=> (queue[i].seq > tickBase)

\* A drain that has popped its whole snapshot of two or more Packets while the
\* worker has put Packets, which are still in the queue.
DrainPopsSnapshotWitness ==
    /\ mpc = "drain"
    /\ qsize = 0
    /\ tickSize >= 2
    /\ npushed > tickBase
    /\ Len(queue) = npushed - tickBase

\* C5: the drain loop of a tick of update() terminates, also when the worker
\* keeps putting Packets during the drain; it never blocks on an empty queue.
DrainTerminates ==
    /\ []((mpc = "drain" /\ qsize > 0) => queue # <<>>)
    /\ (mpc = "drain") ~> (mpc = "idle")

\* A drain with Packets still to pop while the worker has put further Packets.
DrainTerminatesWitness ==
    /\ mpc = "drain"
    /\ qsize > 0
    /\ npushed > tickBase

(***************************************************************************)
(* Properties of the Packets the worker emits                              *)
(***************************************************************************)
\* The time between two EMG samples the client derives from the replies to
\* FRAME INTERVAL? and MAX SAMPLES EMG?
SampleInterval == server.fi \div server.ms

Discovered == {s \in Slots : s \in DOMAIN sensors /\ sensors[s] # None}

\* C10: for every frame the worker puts one Packet per discovered sensor, in
\* ascending slot order, whose reading is the absolute value of the frame's
\* float at the sensor's start_idx - 1; after k frames it has put exactly k
\* Packets for each discovered sensor and none for any other slot.
OnePacketPerSensorPerFrame ==
    /\ \A w \in 1..MaxThreads :
          LET t == threads[w]
          IN  t.pc \in {"loop", "recv", "add", "push"} =>
                \A s \in Slots :
                    t.sent[s] =
                        IF s \notin Discovered THEN 0
                        ELSE IF /\ t.pc = "push"
                                /\ \E n \in 1..(t.i - 1) : t.connected_sensors[n].slot = s
                             THEN t.k + 1
                             ELSE t.k
    /\ \A n \in 1..Len(queue) :
          LET p == queue[n]
              x == FrameOf(p.emg)[server.sensors[p.slot]]
          IN  /\ server.sensors[p.slot] # None
              /\ p.reading = IF x < 0 THEN 0 - x ELSE x
              /\ p.device_name = Str(server.sensors[p.slot])
    /\ \A m, n \in 1..Len(queue) :
          (m < n /\ queue[m].w = queue[n].w /\ queue[m].st = queue[n].st)
              => \/ queue[m].k < queue[n].k
                 \/ queue[m].k = queue[n].k /\ queue[m].slot < queue[n].slot

\* A worker has handled two frames for two discovered sensors, one of the
\* floats being negative, and the four Packets are queued.
OnePacketPerSensorPerFrameWitness ==
    /\ Cardinality(Discovered) = 2
    /\ Len(queue) = 4
    /\ \E w \in 1..MaxThreads : threads[w].k = 2 /\ threads[w].pc = "loop"
    /\ \E n \in 1..Len(queue) : FrameOf(queue[n].emg)[server.sensors[queue[n].slot]] < 0

(***************************************************************************)
(* Properties of the shift buffers                                         *)
(***************************************************************************)
\* The sample at index i (from 1) of a buffer of capacity c after n inserts is
\* the insert with this number; numbers below 1 are the zeros of construction.
InsertAt(c, n, i) == n - c + i

\* C6: after n >= C calls of add_packet a buffer of capacity C holds exactly the
\* last C samples in arrival order, oldest at index 0 and newest at index C-1
\* (timestamps and rows); with fewer calls the leading entries are still zero.
BufferHoldsLastInserts ==
    /\ Len(ybuf.timestamp) = ybuf.bufsize /\ Len(ybuf.data) = ybuf.bufsize
    /\ \A i \in 1..ybuf.bufsize :
          LET j == InsertAt(ybuf.bufsize, Len(yhist), i)
          IN  IF j >= 1
              THEN /\ ybuf.timestamp[i] = yhist[j].t
                   /\ ybuf.data[i][1] = yhist[j].roll
                   /\ ybuf.data[i][2] = yhist[j].pitch
                   /\ ybuf.data[i][3] = yhist[j].yaw
                   /\ ybuf.data[i][4] = Abs(yhist[j].roll) + Abs(yhist[j].pitch)
              ELSE ybuf.timestamp[i] = 0 /\ ybuf.data[i] = Zeros(4)
    /\ Len(dbuf.timestamp) = dbuf.bufsize /\ Len(dbuf.data) = dbuf.bufsize
    /\ \A i \in 1..dbuf.bufsize :
          LET j == InsertAt(dbuf.bufsize, Len(dhist), i)
          IN  IF j >= 1
              THEN dbuf.timestamp[i] = dhist[j].t /\ dbuf.data[i] = dhist[j].packet
              ELSE dbuf.timestamp[i] = 0 /\ dbuf.data[i] = Zeros(NSlots)

\* Both buffers have capacity 2 or more and have taken one insert more than
\* their capacity: the first sample has been evicted.
BufferHoldsLastInsertsWitness ==
    /\ ybuf.bufsize >= 2 /\ Len(yhist) = ybuf.bufsize + 1
    /\ dbuf.bufsize >= 2 /\ Len(dhist) = dbuf.bufsize + 1

\* An add_packet step on the YostBuffer / on the DelsysBuffer.
YostInsert == yhist' # yhist
DelsysInsert == dhist' # dhist

\* C7: the timestamp array and the data array of a buffer have the length
\* bufsize given at construction in every state; an insert changes neither
\* bufsize nor the lengths and removes exactly the entry at index 0, every
\* other entry moving down by one.
BufferLengthFixed ==
    /\ [](/\ Len(ybuf.timestamp) = ybuf.bufsize /\ Len(ybuf.data) = ybuf.bufsize
          /\ Len(dbuf.timestamp) = dbuf.bufsize /\ Len(dbuf.data) = dbuf.bufsize)
    /\ [][YostInsert =>
            /\ ybuf'.bufsize = ybuf.bufsize
            /\ Len(ybuf'.data) = Len(ybuf.data)
            /\ Len(ybuf'.timestamp) = Len(ybuf.timestamp)
            /\ \A i \in 1..(ybuf.bufsize - 1) :
                  /\ ybuf'.data[i] = ybuf.data[i + 1]
                  /\ ybuf'.timestamp[i] = ybuf.timestamp[i + 1]]_vars
    /\ [][DelsysInsert =>
            /\ dbuf'.bufsize = dbuf.bufsize
            /\ Len(dbuf'.data) = Len(dbuf.data)
            /\ Len(dbuf'.timestamp) = Len(dbuf.timestamp)
            /\ \A i \in 1..(dbuf.bufsize - 1) :
                  /\ dbuf'.data[i] = dbuf.data[i + 1]
                  /\ dbuf'.timestamp[i] = dbuf.timestamp[i + 1]]_vars

\* A buffer not yet full, one exactly full and past it: the YostBuffer of
\* capacity 2 after one insert, the DelsysBuffer of capacity 2 after three.
BufferLengthFixedWitness ==
    /\ ybuf.bufsize = 2 /\ Len(yhist) = 1 /\ Len(ybuf.data) = 2
    /\ dbuf.bufsize = 2 /\ Len(dhist) = 3 /\ Len(dbuf.timestamp) = 2

\* the data array after add_packet for each of the packets, in order
RECURSIVE AddEach(_, _)
AddEach(data, packets) ==
    IF packets = <<>> THEN data ELSE AddEach(ShiftIn(data, Head(packets)), Tail(packets))

\* C35: add_packets never raises, for a batch of any length from 0 to beyond
\* the capacity, and leaves the data array as successive add_packet calls with
\* the same packets would.
BatchEqualsSuccessiveAdds ==
    /\ err # "ValueError"
    /\ dbuf.data = AddEach(DelsysBufferInit(dbuf.bufsize).data,
                           [k \in 1..Len(dhist) |-> dhist[k].packet])

(***************************************************************************)
(* Properties of recv_sz                                                   *)
(***************************************************************************)
\* Bytes a+1 .. a+n of the stream
StreamSlice(a, n) == [i \in 1..n |-> StreamByte(a + i)]

\* C8: however the stream is split into non-empty chunks, recv_sz returns the
\* next 64 bytes of the stream in order: buf is always the stream from where
\* the call began up to what the socket has delivered, no sock.recv is asked
\* for more than is missing, and the values returned are the consecutive
\* 64-byte segments of the stream.
RecvExactFrames ==
    /\ rpos = FrameBytes * Len(rframes) + Len(rbuf)
    /\ rbuf = StreamSlice(FrameBytes * Len(rframes), Len(rbuf))
    /\ rask <= FrameBytes
    /\ \A f \in 1..Len(rframes) :
          /\ Len(rframes[f]) = FrameBytes
          /\ rframes[f] = StreamSlice(FrameBytes * (f - 1), FrameBytes)

\* One frame has been returned and the second is being put together from a
\* partial read.
RecvExactFramesWitness ==
    /\ Len(rframes) = 1
    /\ rpc = "loop"
    /\ Len(rbuf) > 0
    /\ Len(rbuf) < FrameBytes
    /\ rask = FrameBytes

\* C33: a Packet that update() adds to a buffer has a timestamp greater than
\* that of the Packet added to the same buffer before it.
BufferTimesIncrease ==
    [][(mpc = "drain" /\ ngot' = ngot + 1 /\ Head(queue).device_name \in buffers)
          => \A x \in lastAdded :
                x[1] = Head(queue).device_name => x[2] < Head(queue).time]_vars

StartStreamNeedsConnection ==
    [][(~connected /\ StartStreamOp)
          => /\ err' = "AssertionError"
             /\ UNCHANGED <<lastCmd, server, start_time, last_frame_time, _done_streaming,
                            _worker_thread, threads>>]_vars

\* start_stream has failed on a client that streamed once and was then
\* disconnected by close_connection
StartStreamNeedsConnectionWitness ==
    /\ err = "AssertionError"
    /\ ~connected
    /\ clock = 1
    /\ lastCmd = "STOP"
    /\ AliveThreads = {}

\* C31: a sock.recv that yields zero bytes because the peer has closed the
\* data connection ends recv_sz: the call does not stay in its loop.
RecvSzEndsOnZeroBytes ==
    [][rzero' > rzero => rpc' # "loop"]_vars

(***************************************************************************)
(* Properties of the command channel                                       *)
(***************************************************************************)
\* query_devices has returned: query_device was called for all 16 slots.
DiscoveryDone == Len(visited) = NSlots /\ cpc.op # "query_device"

\* Slots that answered YES to PAIRED? and YES to ACTIVE? in the discovery.
ActiveSlots == {i \in Slots : replies[i] = "active"}

\* C11: after query_devices, whatever the slots answered to PAIRED? and
\* ACTIVE?, the sensor table has a descriptor at slot i iff slot i answered
\* YES to both; sensor_idx lists exactly those slots in ascending order and
\* n_sensors is their number.
DiscoveryTableMatchesReplies ==
    DiscoveryDone =>
        /\ \A i \in Slots : (sensors[i] # None) <=> (i \in ActiveSlots)
        /\ Len(sensor_idx) = Cardinality(ActiveSlots)
        /\ {sensor_idx[k] : k \in 1..Len(sensor_idx)} = ActiveSlots
        /\ \A k \in 1..(Len(sensor_idx) - 1) : sensor_idx[k] < sensor_idx[k + 1]
        /\ n_sensors = Cardinality(ActiveSlots)

\* A discovery has returned in which one slot was paired and active, one
\* paired but not active, and the rest unpaired.
DiscoveryTableMatchesRepliesWitness ==
    /\ DiscoveryDone
    /\ Cardinality(ActiveSlots) = 1
    /\ \E i \in Slots : replies[i] = "inactive"
    /\ n_sensors = 1
    /\ \E i \in Slots : sensors[i] # None

\* C12 (as the code has it): query_device is called for slots 1..16 in
\* ascending order; the commands sent for a slot are a prefix of PAIRED?,
\* ACTIVE?, TYPE?, SETMODE 40, MODE?, SERIAL?, FIRMWARE?, EMGCHANNELCOUNT?,
\* AUXCHANNELCOUNT?, STARTINDEX?, CHANNELCOUNT?, then per channel 1..n GAIN?,
\* SAMPLES?, RATE?, UNITS?; the slot gets 1 command if PAIRED? is answered
\* NO, 2 if ACTIVE? is answered NO, and all 11 + 4 * CHANNELCOUNT otherwise.
DiscoveryQueryOrder ==
    [][LET fixed(i) == << <<i, "PAIRED?", 0>>, <<i, "ACTIVE?", 0>>, <<i, "TYPE?", 0>>,
                          <<i, "SETMODE 40", 0>>, <<i, "MODE?", 0>>, <<i, "SERIAL?", 0>>,
                          <<i, "FIRMWARE?", 0>>, <<i, "EMGCHANNELCOUNT?", 0>>,
                          <<i, "AUXCHANNELCOUNT?", 0>>, <<i, "STARTINDEX?", 0>>,
                          <<i, "CHANNELCOUNT?", 0>> >>
           perchannel == <<"GAIN?", "SAMPLES?", "RATE?", "UNITS?">>
           order(i) == fixed(i) \o [k \in 1..(4 * MaxChannels) |->
                                       <<i, perchannel[((k - 1) % 4) + 1], ((k - 1) \div 4) + 1>>]
           returned == /\ cpc.op = "query_device"
                       /\ cpc.phase = "recv"
                       /\ (cpc'.op # "query_device" \/ cpc'.i # cpc.i)
       IN  /\ cpc'.op = "query_device" =>
                /\ Len(visited') = cpc'.i
                /\ \A k \in 1..Len(visited') : visited'[k] = k
                /\ Len(sentlog') <= Len(order(cpc'.i))
                /\ \A k \in 1..Len(sentlog') : sentlog'[k] = order(cpc'.i)[k]
           /\ returned =>
                Len(sentlog) = IF replies'[cpc.i] = "unpaired" THEN 1
                               ELSE IF replies'[cpc.i] = "inactive" THEN 2
                               ELSE 11 + 4 * cpc.cc
           /\ (returned /\ cpc'.op = "none" /\ err' = err) => cpc.i = NSlots
      ]_vars

\* Slot 1 was unpaired, slot 2 paired but not active, and for slot 3 every
\* query of a sensor with MaxChannels channels has been sent.
DiscoveryQueryOrderWitness ==
    /\ cpc.op = "query_device"
    /\ cpc.i = 3
    /\ cpc.phase = "recv"
    /\ replies[1] = "unpaired"
    /\ replies[2] = "inactive"
    /\ Len(sentlog) = Len(SensorCmds) + Len(ChannelCmds) * MaxChannels

\* C12 (as stated): within a slot every channel-count query is sent before
\* STARTINDEX?, so that STARTINDEX? is followed by the per-channel queries.
ChannelCountsBeforeStartIndex ==
    cpc.op = "query_device" =>
        \A k, m \in 1..Len(sentlog) :
            (/\ sentlog[k][2] \in {"EMGCHANNELCOUNT?", "AUXCHANNELCOUNT?", "CHANNELCOUNT?"}
             /\ sentlog[m][2] = "STARTINDEX?") => k < m

\* C13: no command is sent on the command socket while the reply to an
\* earlier command is unread.
NoCommandWhileReplyUnread ==
    [][unread' > unread => unread = 0]_vars

\* C18: when the reply to ENDIAN LITTLE or BACKWARDS COMPATIBILITY OFF is not
\* OK, open_connection raises AssertionError and ends there: nothing more is
\* sent, query_device is not called, and the sensor table, sensor_idx and
\* n_sensors stay as they were.
AssertFailureAborts ==
    [][(/\ cpc.op = "open_connection"
        /\ cpc.phase = "recv"
        /\ cpc.n \in {1, 2}
        /\ cpc' # cpc
        /\ lastReply' # "OK")
          => /\ err' = "AssertionError"
             /\ cpc' = NoCommand
             /\ Len(sentlog') = cpc.n
             /\ UNCHANGED <<sensors, sensor_idx, n_sensors, sentlog, visited>>]_vars

\* open_connection on a connected client with two sensors in its table has
\* ended in AssertionError at the second settings command.
AssertFailureAbortsWitness ==
    /\ err = "AssertionError"
    /\ cpc = NoCommand
    /\ lastReply = "INVALID COMMAND"
    /\ Len(sentlog) = 2
    /\ n_sensors = 2
    /\ visited = <<>>

(***************************************************************************)
(* ScopeWidget.update with a task_widget, and the SRDisplay it drives      *)
(***************************************************************************)
\* the ranges the target and base parameters are moved between
TargetRanges == {DefaultTargetRange, <<35, 40>>}
BaseRanges == {DefaultBaseRange, <<38, 45>>}

\* buffer.data[self.task_widget.selected_channel][-1]
Measurements == {0 - 4, 39, 60}

\* tmin <= most_recent_measurement <= tmax
InRange(m, range) == range[1] <= m /\ m <= range[2]

\* the else branch tested in the other order: base before target
EnterEventBaseFirst(inT, inB) ==
    IF inB THEN "ENTER_BASE" ELSE IF inT THEN "ENTER_TARGET" ELSE "none"

\* else:  # Outside base and target
\*     if tmin <= m <= tmax: ENTER_TARGET   elif bmin <= m <= bmax: ENTER_BASE
EnterEvent(inT, inB) ==
    IF inT THEN "ENTER_TARGET" ELSE IF inB THEN "ENTER_BASE" ELSE "none"

\* the event update() emits in state st for a measurement inside (inT, inB)
TaskEventOf(st, inT, inB) ==
    IF st = "IN_TARGET" THEN (IF ~inT THEN "EXIT_TARGET" ELSE "none")
    ELSE IF st = "IN_BASE" THEN (IF ~inB THEN "EXIT_BASE" ELSE "none")
    ELSE EnterEvent(inT, inB)

\* self.last_state after the event
TaskStateAfter(st, ev) ==
    IF ev \in {"EXIT_TARGET", "EXIT_BASE"} THEN "OUTSIDE"
    ELSE IF ev = "ENTER_TARGET" THEN "IN_TARGET"
    ELSE IF ev = "ENTER_BASE" THEN "IN_BASE"
    ELSE st

\* SRDisplay.handle_input_event, the slot of sigTaskEventIn: the value of
\* timer_end_one.isActive() after it
HandleInputEvent(ev) ==
    IF ev = "ENTER_TARGET"
    THEN (IF curr_state = "GO" /\ ~timer_end_one THEN TRUE ELSE timer_end_one)
    ELSE IF ev = "EXIT_TARGET" THEN FALSE
    ELSE timer_end_one

\* update() from the read of most_recent_measurement on; the measurement is
\* what the Packets drained so far have left in the buffer
UpdateTask ==
    /\ nticks < MaxTicks
    /\ nticks' = nticks + 1
    /\ \E m \in Measurements :
        LET inT == InRange(m, target_range)
            inB == InRange(m, base_range)
            ev == TaskEventOf(last_state, inT, inB)
        IN /\ last_state' = TaskStateAfter(last_state, ev)
           /\ lastEvent' = IF ev = "none" THEN lastEvent
                            ELSE [tick |-> nticks', ev |-> ev, inT |-> inT, inB |-> inB]
           /\ timer_end_one' = HandleInputEvent(ev)
    /\ UNCHANGED <<target_range, base_range, curr_state, n_trials_left, n_trials, btn,
                   timer_one, shots, ngo, nended, npress>>
    /\ UNCHANGED <<clientVars, threads, widgetVars, mainVars, server, lastCmd, histVars,
                   bufVars, recvVars, cmdVars, sockVars, avgVars, lastAdded, reachVars>>

\* update_targets: the target parameters were edited
UpdateTargets ==
    /\ \E r \in TargetRanges \ {target_range} : target_range' = r
    /\ UNCHANGED <<last_state, base_range, nticks, lastEvent, srVars>>
    /\ UNCHANGED <<clientVars, threads, widgetVars, mainVars, server, lastCmd, histVars,
                   bufVars, recvVars, cmdVars, sockVars, avgVars, lastAdded, reachVars>>

\* update_base: the base parameters were edited
UpdateBase ==
    /\ \E r \in BaseRanges \ {base_range} : base_range' = r
    /\ UNCHANGED <<last_state, target_range, nticks, lastEvent, srVars>>
    /\ UNCHANGED <<clientVars, threads, widgetVars, mainVars, server, lastCmd, histVars,
                   bufVars, recvVars, cmdVars, sockVars, avgVars, lastAdded, reachVars>>

\* one_trial with the check  if self.n_trials_left > 0  left out
OneTrialUnchecked(left) == TRUE

\* one_trial: if self.n_trials_left > 0
OneTrialGoes(left) == left > 0

\* one_trial: decrement n_trials_left, give one of the three go signals
OneTrial ==
    IF OneTrialGoes(n_trials_left)
    THEN /\ n_trials_left' = n_trials_left - 1
         /\ curr_state' = "GO"
         /\ ngo' = ngo + 1
    ELSE UNCHANGED <<n_trials_left, curr_state, ngo>>

\* timer_one expires
TimerOneTimeout ==
    /\ timer_one
    /\ timer_one' = FALSE
    /\ OneTrial
    /\ UNCHANGED <<taskVars, n_trials, btn, timer_end_one, shots, nended, npress>>
    /\ UNCHANGED <<clientVars, threads, widgetVars, mainVars, server, lastCmd, histVars,
                   bufVars, recvVars, cmdVars, sockVars, avgVars, lastAdded, reachVars>>

\* a timer set by QTimer.singleShot(self.get_random_wait_time(), self.one_trial) expires
SingleShotTimeout ==
    /\ shots > 0
    /\ shots' = shots - 1
    /\ OneTrial
    /\ UNCHANGED <<taskVars, n_trials, btn, timer_one, timer_end_one, nended, npress>>
    /\ UNCHANGED <<clientVars, threads, widgetVars, mainVars, server, lastCmd, histVars,
                   bufVars, recvVars, cmdVars, sockVars, avgVars, lastAdded, reachVars>>

\* timer_end_one expires, HOLD_TIME after its start: end_one_trial, which
\* schedules the next trial or runs end_block
EndOneTrial ==
    /\ timer_end_one
    /\ timer_end_one' = FALSE
    /\ nended' = [n |-> nended.n + 1, at |-> curr_state]
    /\ IF n_trials_left > 0
       THEN /\ curr_state' = "WAIT"
            /\ shots' = shots + 1
            /\ UNCHANGED <<btn, n_trials_left>>
       ELSE /\ curr_state' = "TASK_DONE"
            /\ btn' = "Begin task"
            /\ n_trials_left' = 0
            /\ UNCHANGED shots
    /\ UNCHANGED <<taskVars, n_trials, timer_one, ngo, npress>>
    /\ UNCHANGED <<clientVars, threads, widgetVars, mainVars, server, lastCmd, histVars,
                   bufVars, recvVars, cmdVars, sockVars, avgVars, lastAdded, reachVars>>

\* toggle_start_stop: begin_block when the button reads Begin task, else end_block
ToggleStartStop ==
    /\ npress < MaxPresses
    /\ npress' = npress + 1
    /\ IF btn = "Begin task"
       THEN /\ btn' = "End task"
            /\ n_trials_left' = n_trials
            /\ curr_state' = "WAIT"
            /\ timer_one' = TRUE
            /\ ngo' = 0
       ELSE /\ btn' = "Begin task"
            /\ n_trials_left' = 0
            /\ curr_state' = "TASK_DONE"
            /\ UNCHANGED <<timer_one, ngo>>
    /\ UNCHANGED <<taskVars, n_trials, timer_end_one, shots, nended>>
    /\ UNCHANGED <<clientVars, threads, widgetVars, mainVars, server, lastCmd, histVars,
                   bufVars, recvVars, cmdVars, sockVars, avgVars, lastAdded, reachVars>>

InitTask ==
    /\ InitClient(0) /\ NoServer /\ NoBuffers /\ RecvIdle /\ CommandIdle /\ SocketsFresh
    /\ mabuf = [K |-> None, acc |-> <<>>]
    /\ mraw = <<>>
    /\ mfwd = <<>>
    /\ lastAdded = {}
    /\ ScopeTaskInit
    /\ \E N \in 1..MaxTrials : SRDisplayInit(N)
    /\ ReachingInit(1, 1)

NextTask ==
    \/ UpdateTask
    \/ UpdateTargets
    \/ UpdateBase
    \/ ToggleStartStop
    \/ TimerOneTimeout
    \/ SingleShotTimeout
    \/ EndOneTrial

SpecTask == InitTask /\ [][NextTask]_vars

\* C36: the task events of update() are well nested: at most one event per
\* tick; after ENTER_TARGET the next event is EXIT_TARGET, after ENTER_BASE it
\* is EXIT_BASE, and otherwise it is an ENTER event; last_state is IN_TARGET
\* (IN_BASE) exactly while the last event is ENTER_TARGET (ENTER_BASE); and a
\* measurement inside both ranges yields ENTER_TARGET, never ENTER_BASE.
TaskEventsWellNested ==
    /\ [](last_state = "IN_TARGET" <=> lastEvent.ev = "ENTER_TARGET")
    /\ [](last_state = "IN_BASE" <=> lastEvent.ev = "ENTER_BASE")
    /\ [](lastEvent.ev = "ENTER_TARGET" => lastEvent.inT)
    /\ [](lastEvent.ev = "ENTER_BASE" => lastEvent.inB /\ ~lastEvent.inT)
    /\ [][lastEvent' # lastEvent =>
            /\ nticks' = nticks + 1
            /\ lastEvent'.tick = nticks'
            /\ lastEvent'.tick > lastEvent.tick
            /\ lastEvent.ev = "ENTER_TARGET" => lastEvent'.ev = "EXIT_TARGET"
            /\ lastEvent.ev = "ENTER_BASE" => lastEvent'.ev = "EXIT_BASE"
            /\ lastEvent.ev \in {"none", "EXIT_TARGET", "EXIT_BASE"}
                  => lastEvent'.ev \in {"ENTER_TARGET", "ENTER_BASE"}]_vars

\* the third tick has emitted ENTER_TARGET for a measurement inside both
\* ranges, after an earlier enter and exit
TaskEventsWellNestedWitness ==
    /\ lastEvent = [tick |-> 3, ev |-> "ENTER_TARGET", inT |-> TRUE, inB |-> TRUE]
    /\ last_state = "IN_TARGET"
    /\ nticks = 3

\* C37: the end timer runs only between an ENTER_TARGET and the next
\* EXIT_TARGET, and end_one_trial fires only in the GO state, with the
\* measurement still inside the target.
EndOnlyAfterHoldInGo ==
    /\ [](timer_end_one => last_state = "IN_TARGET")
    /\ [][nended' # nended => curr_state = "GO" /\ last_state = "IN_TARGET"]_vars

\* C38: n_trials_left stays between 0 and the trial count N of the spin box;
\* every go signal decrements it by exactly one; since the last begin_block
\* at most N go signals were issued (N - n_trials_left of them while the
\* block runs); and TASK_DONE is shown with n_trials_left = 0.
TrialCountBounded ==
    /\ [](0 <= n_trials_left /\ n_trials_left <= n_trials)
    /\ [](ngo <= n_trials)
    /\ [](btn = "End task" => ngo + n_trials_left = n_trials)
    /\ [](curr_state = "TASK_DONE" => n_trials_left = 0)
    /\ [][ngo' = ngo + 1 => n_trials_left' = n_trials_left - 1 /\ curr_state' = "GO"]_vars
    /\ [][n_trials_left' < n_trials_left =>
            \/ ngo' = ngo + 1 /\ n_trials_left' = n_trials_left - 1
            \/ curr_state' = "TASK_DONE" /\ n_trials_left' = 0]_vars

\* a block of two trials has run to its end: two go signals, two trials ended
TrialCountBoundedWitness ==
    /\ n_trials = 2
    /\ ngo = 2
    /\ nended = [n |-> 2, at |-> "GO"]
    /\ n_trials_left = 0
    /\ curr_state = "TASK_DONE"
    /\ btn = "Begin task"

\* C39: while the go signal is shown and the measurement is inside the target
\* (update() has it as IN_TARGET), the end of the trial is pending: the hold
\* timer runs, so that end_one_trial fires once HOLD_TIME has passed.
HoldInTargetEndsTrial ==
    (curr_state = "GO" /\ last_state = "IN_TARGET") => ENABLED EndOneTrial

(***************************************************************************)
(* ReachingWidget                                                          *)
(***************************************************************************)
\* Targets.curr: self.all[self.idx % len(self.all)]
Curr(t) == t.all[(t.idx % Len(t.all)) + 1]

\* Targets.move: self.idx += 1
Move(t) == [t EXCEPT !.idx = @ + 1]

\* ReachingWidget.update while running: the cursor states for target target
\* and cursor position pos, as [last_cursor_inside, acquired]
CursorStates(t, pos) ==
    LET cursor_inside == pos = Curr(t)
    IN [last_cursor_inside |-> cursor_inside,
        acquired |-> IF cursor_inside
                     THEN (IF ~last_cursor_inside THEN TRUE ELSE acquired)
                     ELSE FALSE]

\* _begin_task, the slot of the Start button of the popup: reinit the
\* targets from the config, running = True, move_target(), update()
BeginTask ==
    /\ ~running
    /\ rrun.n < MaxRuns
    /\ \E n \in 1..MaxTargets, reps \in 1..MaxReps : \E q \in TargetSequences(n, reps) :
        LET t == Move([all |-> q, idx |-> 0])
        IN /\ targets' = t
           /\ last_cursor_inside' = CursorStates(t, cursor_pos).last_cursor_inside
           /\ acquired' = CursorStates(t, cursor_pos).acquired
    /\ running' = TRUE
    /\ rrun' = [rrun EXCEPT !.n = @ + 1, !.base = Len(task_history)]
    /\ UNCHANGED <<cursor_pos, task_history>>
    /\ UNCHANGED <<clientVars, threads, widgetVars, mainVars, server, lastCmd, histVars,
                   bufVars, recvVars, cmdVars, sockVars, avgVars, lastAdded, taskVars,
                   srVars>>

\* mouseMoveEvent: self.cursor_pos = event.pos(); self.update()
MouseMoveEvent ==
    /\ \E pos \in (0..MaxTargets) \ {cursor_pos} :
        /\ cursor_pos' = pos
        /\ IF running
           THEN /\ last_cursor_inside' = CursorStates(targets, pos).last_cursor_inside
                /\ acquired' = CursorStates(targets, pos).acquired
           ELSE UNCHANGED <<last_cursor_inside, acquired>>
    /\ UNCHANGED <<targets, running, task_history, rrun>>
    /\ UNCHANGED <<clientVars, threads, widgetVars, mainVars, server, lastCmd, histVars,
                   bufVars, recvVars, cmdVars, sockVars, avgVars, lastAdded, taskVars,
                   srVars>>

\* update_task_state, the slot of the 50 Hz timer, when the cursor has been
\* held inside the target for more than hold_time: finish_task() if the
\* targets are used up, else append to task_history, move_target(), update()
UpdateTaskState ==
    /\ running
    /\ acquired
    /\ IF targets.idx >= Len(targets.all)
       THEN /\ running' = FALSE
            /\ rrun' = [rrun EXCEPT !.done = @ + 1]
            /\ UNCHANGED <<targets, task_history, last_cursor_inside, acquired>>
       ELSE /\ task_history' = Append(task_history, Curr(targets))
            /\ targets' = Move(targets)
            /\ last_cursor_inside' = CursorStates(targets', cursor_pos).last_cursor_inside
            /\ acquired' = CursorStates(targets', cursor_pos).acquired
            /\ UNCHANGED <<running, rrun>>
    /\ UNCHANGED cursor_pos
    /\ UNCHANGED <<clientVars, threads, widgetVars, mainVars, server, lastCmd, histVars,
                   bufVars, recvVars, cmdVars, sockVars, avgVars, lastAdded, taskVars,
                   srVars>>

InitReaching ==
    /\ InitClient(0) /\ NoServer /\ NoBuffers /\ RecvIdle /\ CommandIdle /\ SocketsFresh
    /\ mabuf = [K |-> None, acc |-> <<>>]
    /\ mraw = <<>>
    /\ mfwd = <<>>
    /\ lastAdded = {}
    /\ ScopeTaskInit
    /\ SRDisplayInit(1)
    /\ \E n \in 1..MaxTargets, reps \in 1..MaxReps : ReachingInit(n, reps)

NextReaching ==
    \/ BeginTask
    \/ MouseMoveEvent
    \/ UpdateTaskState

SpecReaching == InitReaching /\ [][NextReaching]_vars

\* the entries appended to task_history since the current run began
RunEntries == SubSeq(task_history, rrun.base + 1, Len(task_history))

\* C40: while a run is on, the target presented is the element of the
\* generated sequence that follows the ones already recorded, starting with
\* the first; every entry appended is the target of that position; and when
\* the run has finished, the entries appended during it are the whole
\* sequence, n_targets * n_reps of them.
ReachingHistoryComplete ==
    /\ Len(RunEntries) <= Len(targets.all)
    /\ \A k \in 1..Len(RunEntries) : RunEntries[k] = targets.all[k]
    /\ (running /\ Len(RunEntries) < Len(targets.all))
          => Curr(targets) = targets.all[Len(RunEntries) + 1]
    /\ (~running /\ rrun.done > 0) => RunEntries = targets.all

\* ---------------------------------------------------------------------------
\* MovingAverageBuffer (AveragedMultichannelBuffer of bomi.datastructure,
\* created by ScopeWidget.init_data for every Trigno device name)
\* ---------------------------------------------------------------------------

\* raw samples handed to add: one value per channel
RawSamples == {<<1, 4>>, <<3, 0>>, <<2, 2>>}

\* the buffer after construction with window size K: nothing accumulated
MovingAverageBuffer(K) == [K |-> K, acc |-> <<>>]

WindowFullLate(acc, K) == Len(acc) > K

\* K raw samples have accumulated
WindowFull(acc, K) == Len(acc) >= K

RECURSIVE ChannelSum(_, _)
ChannelSum(acc, ch) ==
    IF acc = <<>> THEN 0 ELSE Head(acc)[ch] + ChannelSum(Tail(acc), ch)

\* the arithmetic mean of one channel of the accumulated samples, as the
\* fraction num / den
Mean(acc, ch) == [num |-> ChannelSum(acc, ch), den |-> Len(acc)]

KeepAccumulator(acc) == acc

\* the accumulator after a forward
ResetAccumulator(acc) == <<>>

\* add(raw_sample): accumulate; once K raw samples have accumulated, compute
\* the mean per channel, reset the accumulator and forward one averaged sample
\* to the underlying RingBuffer
MovingAverageAdd ==
    /\ mabuf.K # None
    /\ Len(mraw) < MaxRawAdds
    /\ \E raw \in RawSamples :
        LET acc == Append(mabuf.acc, raw)
        IN /\ mraw' = Append(mraw, raw)
           /\ IF WindowFull(acc, mabuf.K)
              THEN /\ mfwd' = Append(mfwd, [at |-> Len(mraw) + 1,
                                            sample |-> [ch \in 1..Len(raw) |-> Mean(acc, ch)]])
                   /\ mabuf' = [mabuf EXCEPT !.acc = ResetAccumulator(acc)]
              ELSE /\ mabuf' = [mabuf EXCEPT !.acc = acc]
                   /\ UNCHANGED mfwd
    /\ UNCHANGED <<clientVars, threads, widgetVars, mainVars, server, lastCmd, histVars,
                   bufVars, recvVars, cmdVars, sockVars, extVars>>

InitAverage ==
    /\ InitClient(0) /\ NoServer /\ NoBuffers /\ RecvIdle /\ CommandIdle /\ SocketsFresh
    /\ lastAdded = {}
    /\ NoTask
    /\ \E K \in 1..MaxWindow : mabuf = MovingAverageBuffer(K)
    /\ mraw = <<>>
    /\ mfwd = <<>>

NextAverage == MovingAverageAdd

SpecAverage == InitAverage /\ [][NextAverage]_vars

\* the sum over one channel of raw inputs a..b
RECURSIVE RawSum(_, _, _)
RawSum(a, b, ch) == IF a > b THEN 0 ELSE mraw[a][ch] + RawSum(a + 1, b, ch)

\* C24: after n raw adds to a buffer of window size K exactly n \div K
\* averaged samples have been forwarded, the m-th of them at raw add m * K
\* (none before the K-th), and the accumulator holds the n % K raw samples
\* added since the last forward, so it is empty right after each forward.
AveragedOncePerWindow ==
    mabuf.K # None =>
        /\ Len(mfwd) = Len(mraw) \div mabuf.K
        /\ \A m \in 1..Len(mfwd) : mfwd[m].at = m * mabuf.K
        /\ Len(mabuf.acc) = Len(mraw) % mabuf.K
        /\ (Len(mfwd) > 0 /\ mfwd[Len(mfwd)].at = Len(mraw)) => mabuf.acc = <<>>

\* a buffer of window size 3 after five raw adds: one forward, two samples
\* accumulated
AveragedOncePerWindowWitness ==
    /\ mabuf.K # None
    /\ mabuf.K = 3
    /\ Len(mraw) = 5
    /\ Len(mfwd) = 1
    /\ Len(mabuf.acc) = 2

\* C25: the m-th forwarded sample is, channel by channel, the arithmetic mean
\* of raw inputs (m-1)*K+1 .. m*K and of nothing else: emitted * K equals the
\* sum of exactly those K inputs.
AveragedValueIsBlockMean ==
    mabuf.K # None =>
        \A m \in 1..Len(mfwd) : \A ch \in DOMAIN mfwd[m].sample :
            LET e == mfwd[m].sample[ch]
                K == mabuf.K
            IN /\ e.den = K
               /\ e.num * K = RawSum((m - 1) * K + 1, m * K, ch) * e.den

\* a buffer of window size 2 has forwarded two different averaged samples, the
\* second without a contribution of the first block
AveragedValueIsBlockMeanWitness ==
    /\ mabuf.K # None
    /\ mabuf.K = 2
    /\ Len(mfwd) = 2
    /\ mfwd[1].sample # mfwd[2].sample
    /\ mraw[1] # mraw[3]

====
